---- MODULE Spec2Model ----
(***************************************************************************)
(* State-machine model of the batch job engine of video_merger_modular.    *)
(*                                                                         *)
(*   Spec      the Job Scheduler (core/batch_processor.py) with its        *)
(*             dispatch thread, worker pool, runner threads and the queued *)
(*             process_finished notifications of the runners.              *)
(*   LiveSpec  Spec with the fairness the thread scheduling provides.      *)
(*   TaskSpec  the Task Store and Retry Executor (core/task_manager.py).   *)
(*   ClassifierSpec  single calls of ErrorClassifier.should_retry.         *)
(*   PersistSpec     the Task Store with its job file.                     *)
(*   RunSpec         RobustVideoProcessor.run over a job of three tasks.   *)
(*   ControllerSpec  the Process Supervisor (core/process_controller.py).  *)
(*   ReclaimerSpec   the Resource Reclaimer (core/resource_manager.py);    *)
(*   ForcedCleanupSpec  cleanup_all(force=True) over temp files, with the  *)
(*                   progress of the call and of its threads.              *)
(*   SelectorSpec    the Sequence Selector (core/sequence_selector.py)     *)
(*                   with its persistence file.                            *)
(*   TenCallSpec     ten calls of get_next_combination on one selector.    *)
(*   NamerSpec       runners calling generate_unique_filename for one      *)
(*                   output folder (core/video_processor.py).              *)
(*   FailingSpec     the Retry Executor on tasks whose executions all fail.*)
(*   PipelineSpec    the pipeline state machine (core/pipeline_states.py). *)
(*   LockSpec        the locks of the Job Scheduler, step by step.         *)
(***************************************************************************)
EXTENDS Integers, Sequences, FiniteSets, TLC

(***************************************************************************)
(* Bounds of the model.                                                    *)
(***************************************************************************)
MaxJobs == 2        \* BatchJobInfo objects created in one behaviour
MaxStarts == 2      \* successful start_batch calls in one behaviour
MaxAdders == 2      \* add_*_job calls that are in flight at the same time
MaxQueued == 1      \* queued notifications that still admit a per-video error
MaxWorkers == 1     \* largest max_concurrent_jobs a scheduler is constructed with
MaxTasks == 2       \* tasks of the job the Task Store holds
MaxCarriedRetries == 4  \* largest max_retries a loaded task carries
MaxTimers == 1      \* retry_task threads of one task asleep at the same time
MaxRetryCount == 6  \* largest retry_count should_retry is asked about
MaxCalls == 4       \* calls of the public methods in one behaviour
MaxStoreCalls == 2  \* calls of save_state and load_job in one behaviour
ScenarioTasks == 3  \* tasks of the job RobustVideoProcessor.run works through
MaxProcs == 2       \* child processes registered in one behaviour
MaxPolls == 2       \* polls of 100 ms that fit into the timeout of cancel_all
MaxRmFiles == 2     \* files registered with the Resource Reclaimer
MaxRmProcs == 2     \* processes registered with the Resource Reclaimer
MaxRmClips == 1     \* clips and audio readers registered with the Resource Reclaimer
MaxCleanups == 1    \* cleanup_all calls in one behaviour
MaxSelectors == 2   \* selectors constructed on one persistence file
MaxSelCalls == 2    \* combinations returned in one behaviour
ScenarioCalls == 10 \* get_next_combination calls of the five-material scenario
MaxDrawn == 3       \* materials the random draws of that scenario fall on
MaxThreads == 2     \* threads inside the methods of the scheduler at the same time
MaxThreadCalls == 1 \* calls one of these threads makes in one behaviour
MaxHistory == 6     \* entries of state_history (transition_to calls accepted + 1)
MaxNamers == 2      \* runners that write to one output folder under one base name
MaxSeconds == 1     \* seconds that pass in one behaviour
MaxMicros == 1      \* microseconds told apart within one second
CounterLimit == 2   \* counters tried before the fallback name (999 in the source)

(***************************************************************************)
(* Program constants and input domains.                                    *)
(***************************************************************************)
Folders == {"f1", "f2"}
JobTypes == {"merge", "split"}
Objs == 1..MaxJobs
Runs == 1..MaxStarts

VARIABLES
    jobs,                \* BatchProcessor.jobs: folder_path -> object (0: no entry)
    job,                 \* the BatchJobInfo objects, by identity
    pending_jobs,        \* BatchProcessor.pending_jobs (Queue of objects)
    running, paused, cancelled,
    max_concurrent_jobs,
    executorQ,           \* work queue of the ThreadPoolExecutor
    disp,                \* the process_jobs threads, one per start_batch
    adders,              \* add_*_job calls between their check and their insert
    finishQ,             \* queued process_finished notifications <<folder, message>>
    completedEmits,      \* batch_completed emissions since the last start_batch
    pendingAtCancel,     \* objects that were pending when cancel_batch ran
    removedObjs,         \* objects deleted by remove_job
    calls,               \* calls of the public methods made so far
    batchJobs,           \* objects that were in the job map at the last start_batch
    tasks,               \* TaskManager.tasks: task_id -> TaskInfo
    executing,           \* the task RobustTaskExecutor.execute_task is working on (0: none)
    timers,              \* retry_task threads that are asleep, per task
    current_job,         \* TaskManager.current_job (its status)
    jobFile,             \* the persisted job file <job_id>.json
    lastOp,              \* the Task Store operation that ran last
    storeCalls,          \* calls of save_state and load_job made so far
    query,               \* one call of ErrorClassifier.should_retry and its result
    active_processes,    \* ProcessController._active_processes
    temp_files,          \* ProcessController._temp_files
    output_files,        \* ProcessController._output_files
    ctl_cancelled,       \* ProcessController._cancelled
    cleanup_on_cancel,   \* ProcessController._cleanup_on_cancel
    proc,                \* the child processes (Popen objects)
    disk,                \* the files of the child processes
    cancelCall,          \* the cancel_all call: its position, result and what it saw
    reclaimer,           \* the lists of a ResourceManager
    rmEnv,               \* files and processes it works on, delayed_cleanup threads
    rmCall,              \* the cleanup_all call: its position and what it did
    selector,            \* the SequenceDiversitySelector in use
    selFile,             \* its persistence file
    selCall,             \* the running or last get_next_combination call
    selHist,             \* what the selector returned and saved so far
    outDir,              \* the files of the output folder
    nameClock,           \* the time datetime.now() gives
    namer,               \* the runners inside generate_unique_filename
    current_state,       \* StateTransitionManager.current_state
    state_history,       \* StateTransitionManager.state_history
    transition,          \* the last transition_to call: its target and result
    lockOwner,           \* the threads holding BatchProcessor._lock and
                         \* ProcessController._lock
    thread,              \* the threads inside the methods of the scheduler
    progress,            \* BatchJobInfo.progress of the objects, in percent
    processor_class      \* the class of job.processor, per object

schedulerVars == <<jobs, job, pending_jobs, running, paused, cancelled,
                   max_concurrent_jobs, executorQ, disp, adders, finishQ,
                   completedEmits, pendingAtCancel, removedObjs, calls, batchJobs>>

taskVars == <<tasks, executing, timers, current_job, jobFile, lastOp,
             storeCalls>>

controllerVars == <<active_processes, temp_files, output_files, ctl_cancelled,
                    cleanup_on_cancel, proc, disk, cancelCall>>

reclaimerVars == <<reclaimer, rmEnv, rmCall>>

selectorVars == <<selector, selFile, selCall, selHist>>

namerVars == <<outDir, nameClock, namer>>

pipelineVars == <<current_state, state_history, transition>>

lockVars == <<lockOwner, thread, progress, processor_class>>

toolVars == <<reclaimerVars, selectorVars, namerVars, pipelineVars, lockVars>>

nonSchedulerVars == <<taskVars, query, controllerVars, toolVars>>
nonTaskVars == <<schedulerVars, query, controllerVars, toolVars>>
nonClassifierVars == <<schedulerVars, taskVars, controllerVars, toolVars>>
nonControllerVars == <<schedulerVars, taskVars, query, toolVars>>
engineVars == <<schedulerVars, taskVars, query, controllerVars>>
nonReclaimerVars == <<engineVars, selectorVars, namerVars, pipelineVars, lockVars>>
nonSelectorVars == <<engineVars, reclaimerVars, namerVars, pipelineVars, lockVars>>
nonNamerVars == <<engineVars, reclaimerVars, selectorVars, pipelineVars, lockVars>>
nonPipelineVars == <<engineVars, reclaimerVars, selectorVars, namerVars, lockVars>>
nonLockVars == <<taskVars, query, controllerVars, reclaimerVars, selectorVars,
                 namerVars, pipelineVars>>

vars == <<engineVars, toolVars>>

(***************************************************************************)
(* BatchJobInfo.  status "none" marks an object that is not created yet.   *)
(*   wpc: position of the pool worker in _process_job for this object      *)
(*   rpc: state of the runner thread (job.processor)                       *)
(*   stop: the runner's _cancel_requested / not running flags              *)
(***************************************************************************)
NoJob == [folder |-> "", type |-> "", status |-> "none", paused |-> FALSE,
          wpc |-> "none", rpc |-> "none", stop |-> FALSE]

BatchJobInfo(f, t) == [folder |-> f, type |-> t, status |-> "pending",
                       paused |-> FALSE, wpc |-> "none", rpc |-> "none",
                       stop |-> FALSE]

ActiveStatuses == {"pending", "processing", "paused"}
TerminalStatuses == {"completed", "failed", "cancelled"}

\* self.jobs.values()
JobValues(js) == {js[f] : f \in Folders} \ {0}

\* job.processor is set once the worker has created the runner
HasProcessor(j) == j.rpc # "none"

\* job.processor.isRunning()
IsRunning(j) == j.rpc = "running"

Created == {o \in Objs : job[o].status # "none"}

\* [j for j in self.jobs.values() if j.status in ["pending","processing","paused"]]
active_jobs(js, jb) == {o \in JobValues(js) : jb[o].status \in ActiveStatuses}

(***************************************************************************)
(* Messages of process_finished.  _on_job_finished only tests whether the  *)
(* text contains "完成".                                                   *)
(*   all_done   "所有视频合成完成！" / "分割完成！..."                      *)
(*   shortage   "错误：可用视频文件不足，无法完成第i个视频的合成"           *)
(*   error      "合成第i个视频时出错：..." / "发生错误：..."                *)
(*   cancelled  "操作已取消"                                               *)
(***************************************************************************)
Messages == {"all_done", "shortage", "error", "cancelled"}
ContainsWanCheng(m) == m \in {"all_done", "shortage"}

SchedulerInit ==
    /\ jobs = [f \in Folders |-> 0]
    /\ job = [o \in Objs |-> NoJob]
    /\ pending_jobs = <<>>
    /\ running = FALSE
    /\ paused = FALSE
    /\ cancelled = FALSE
    /\ max_concurrent_jobs \in 1..MaxWorkers
    /\ executorQ = <<>>
    /\ disp = [d \in Runs |-> [pc |-> "idle", held |-> 0]]
    /\ adders = [k \in Folders \X JobTypes |-> 0]
    /\ finishQ = <<>>
    /\ completedEmits = 0
    /\ pendingAtCancel = {}
    /\ removedObjs = {}
    /\ calls = 0
    /\ batchJobs = {}

SchedulerIdle ==
    /\ SchedulerInit
    /\ max_concurrent_jobs = 1

(***************************************************************************)
(* add_merge_job / add_split_job.  The membership test runs before the     *)
(* lock is taken; the insert runs under the lock.                          *)
(***************************************************************************)
RECURSIVE SumOver(_, _)
SumOver(fn, keys) ==
    IF keys = {} THEN 0
    ELSE LET k == CHOOSE x \in keys : TRUE
         IN fn[k] + SumOver(fn, keys \ {k})

AddersInFlight == SumOver(adders, Folders \X JobTypes)

\* "if folder_path in self.jobs: return False"
add_job_accepts(f, js) == js[f] = 0

add_job_check(f, t) ==
    /\ calls < MaxCalls
    /\ calls' = calls + 1
    /\ add_job_accepts(f, jobs)
    /\ AddersInFlight < MaxAdders
    /\ Cardinality(Created) + AddersInFlight < MaxJobs
    /\ adders' = [adders EXCEPT ![<<f, t>>] = @ + 1]
    /\ UNCHANGED <<jobs, job, pending_jobs, running, paused, cancelled,
                   max_concurrent_jobs, executorQ, disp, finishQ,
                   completedEmits, pendingAtCancel, removedObjs, batchJobs>>
    /\ UNCHANGED nonSchedulerVars

\* "with self._lock: self.jobs[folder_path] = job; self.pending_jobs.put(job)"
add_job_insert(f, t) ==
    /\ adders[<<f, t>>] > 0
    /\ LET o == Cardinality(Created) + 1
       IN /\ job' = [job EXCEPT ![o] = BatchJobInfo(f, t)]
          /\ jobs' = [jobs EXCEPT ![f] = o]
          /\ pending_jobs' = Append(pending_jobs, o)
    /\ adders' = [adders EXCEPT ![<<f, t>>] = @ - 1]
    /\ UNCHANGED <<running, paused, cancelled, max_concurrent_jobs,
                   executorQ, disp, finishQ, completedEmits,
                   pendingAtCancel, removedObjs, calls, batchJobs>>
    /\ UNCHANGED nonSchedulerVars

(***************************************************************************)
(* start_batch: starts one process_jobs thread.                            *)
(***************************************************************************)
Started == {d \in Runs : disp[d].pc # "idle"}

start_batch ==
    /\ calls < MaxCalls
    /\ calls' = calls + 1
    /\ ~running
    /\ JobValues(jobs) # {}
    /\ Cardinality(Started) < MaxStarts
    /\ running' = TRUE
    /\ paused' = FALSE
    /\ cancelled' = FALSE
    /\ disp' = [disp EXCEPT ![Cardinality(Started) + 1] =
                                [pc |-> "top", held |-> 0]]
    /\ completedEmits' = 0
    /\ batchJobs' = JobValues(jobs)
    /\ UNCHANGED <<jobs, job, pending_jobs, max_concurrent_jobs, executorQ,
                   adders, finishQ, pendingAtCancel, removedObjs>>
    /\ UNCHANGED nonSchedulerVars

(***************************************************************************)
(* pause_batch / resume_batch.  No runner class defines pause or resume,   *)
(* so hasattr(job.processor, 'pause') is false and only the job record     *)
(* changes.                                                                *)
(***************************************************************************)
pause_batch_ok(r, p) == r /\ ~p
resume_batch_ok(r, p) == r /\ p

\* "for job in self.jobs.values(): if job.status == 'processing' and job.processor"
pause_batch_jobs(js, jb) ==
    [o \in Objs |->
        IF o \in JobValues(js) /\ jb[o].status = "processing" /\ HasProcessor(jb[o])
        THEN [jb[o] EXCEPT !.paused = TRUE, !.status = "paused"]
        ELSE jb[o]]

\* "for job in self.jobs.values(): if job.status == 'paused' and job.processor"
resume_batch_jobs(js, jb) ==
    [o \in Objs |->
        IF o \in JobValues(js) /\ jb[o].status = "paused" /\ HasProcessor(jb[o])
        THEN [jb[o] EXCEPT !.paused = FALSE, !.status = "processing"]
        ELSE jb[o]]

pause_batch ==
    /\ calls < MaxCalls
    /\ calls' = calls + 1
    /\ pause_batch_ok(running, paused)
    /\ paused' = TRUE
    /\ job' = pause_batch_jobs(jobs, job)
    /\ UNCHANGED <<jobs, pending_jobs, running, cancelled,
                   max_concurrent_jobs, executorQ, disp, adders, finishQ,
                   completedEmits, pendingAtCancel, removedObjs, batchJobs>>
    /\ UNCHANGED nonSchedulerVars

resume_batch ==
    /\ calls < MaxCalls
    /\ calls' = calls + 1
    /\ resume_batch_ok(running, paused)
    /\ paused' = FALSE
    /\ job' = resume_batch_jobs(jobs, job)
    /\ UNCHANGED <<jobs, pending_jobs, running, cancelled,
                   max_concurrent_jobs, executorQ, disp, adders, finishQ,
                   completedEmits, pendingAtCancel, removedObjs, batchJobs>>
    /\ UNCHANGED nonSchedulerVars

(***************************************************************************)
(* _cancel_job.  VideoProcessor.stop and FFmpegGPUProcessor.stop set the   *)
(* flags and wait for the runner thread, which leaves its loop and emits   *)
(* "操作已取消"; VideoSplitter.stop also ends with self.wait().            *)
(***************************************************************************)
StopWaits(j) == j.type \in {"merge", "split"}

cancel_job(j) ==
    IF HasProcessor(j) /\ IsRunning(j)
    THEN IF StopWaits(j)
         THEN [j EXCEPT !.stop = TRUE, !.rpc = "finished", !.status = "cancelled"]
         ELSE [j EXCEPT !.stop = TRUE, !.status = "cancelled"]
    ELSE [j EXCEPT !.status = "cancelled"]

\* the notification a stopped runner leaves behind while stop() waits for it
StopEmits(j) == HasProcessor(j) /\ IsRunning(j) /\ StopWaits(j)

RECURSIVE StopMessages(_, _, _)
StopMessages(o, sel, jb) ==
    IF o > MaxJobs THEN <<>>
    ELSE (IF o \in sel /\ StopEmits(jb[o])
          THEN <<(<<jb[o].folder, "cancelled">>)>> ELSE <<>>)
         \o StopMessages(o + 1, sel, jb)

cancel_batch ==
    /\ calls < MaxCalls
    /\ calls' = calls + 1
    /\ running
    /\ cancelled' = TRUE
    /\ running' = FALSE
    /\ paused' = FALSE
    /\ LET sel == active_jobs(jobs, job)
       IN /\ job' = [o \in Objs |-> IF o \in sel THEN cancel_job(job[o]) ELSE job[o]]
          /\ finishQ' = finishQ \o StopMessages(1, sel, job)
          /\ pendingAtCancel' = pendingAtCancel \cup
                                  {o \in sel : job[o].status = "pending"}
    /\ pending_jobs' = <<>>
    /\ UNCHANGED <<jobs, max_concurrent_jobs, executorQ, disp, adders,
                   completedEmits, removedObjs, batchJobs>>
    /\ UNCHANGED nonSchedulerVars

(***************************************************************************)
(* remove_job, pause_job, resume_job (all under the lock).                 *)
(***************************************************************************)
remove_job(f) ==
    /\ calls < MaxCalls
    /\ calls' = calls + 1
    /\ jobs[f] # 0
    /\ LET o == jobs[f]
           hit == job[o].status \in {"processing", "paused"}
       IN /\ job' = [job EXCEPT ![o] = IF hit THEN cancel_job(@) ELSE @]
          /\ finishQ' = IF hit THEN finishQ \o StopMessages(1, {o}, job)
                        ELSE finishQ
          /\ removedObjs' = removedObjs \cup {o}
    /\ jobs' = [jobs EXCEPT ![f] = 0]
    /\ UNCHANGED <<pending_jobs, running, paused, cancelled,
                   max_concurrent_jobs, executorQ, disp, adders,
                   completedEmits, pendingAtCancel, batchJobs>>
    /\ UNCHANGED nonSchedulerVars

pause_job(f) ==
    /\ calls < MaxCalls
    /\ calls' = calls + 1
    /\ jobs[f] # 0
    /\ job[jobs[f]].status = "processing"
    /\ job' = [job EXCEPT ![jobs[f]] = [@ EXCEPT !.paused = TRUE, !.status = "paused"]]
    /\ UNCHANGED <<jobs, pending_jobs, running, paused, cancelled,
                   max_concurrent_jobs, executorQ, disp, adders, finishQ,
                   completedEmits, pendingAtCancel, removedObjs, batchJobs>>
    /\ UNCHANGED nonSchedulerVars

resume_job(f) ==
    /\ calls < MaxCalls
    /\ calls' = calls + 1
    /\ jobs[f] # 0
    /\ job[jobs[f]].status = "paused"
    /\ job' = [job EXCEPT ![jobs[f]] = [@ EXCEPT !.paused = FALSE, !.status = "processing"]]
    /\ UNCHANGED <<jobs, pending_jobs, running, paused, cancelled,
                   max_concurrent_jobs, executorQ, disp, adders, finishQ,
                   completedEmits, pendingAtCancel, removedObjs, batchJobs>>
    /\ UNCHANGED nonSchedulerVars


(***************************************************************************)
(* process_jobs, the dispatch thread of _start_processing_thread.          *)
(*   top    the while test and the paused test                             *)
(*   get    inside pending_jobs.get(timeout=1)                             *)
(*   got    a job was taken, before "if self.cancelled: break"             *)
(*   after  behind the loop, before "if not self.cancelled"                *)
(***************************************************************************)
process_jobs_top(d) ==
    /\ disp[d].pc = "top"
    /\ IF running /\ ~cancelled
       THEN /\ ~paused          \* paused: time.sleep(1); continue
            /\ disp' = [disp EXCEPT ![d].pc = "get"]
       ELSE disp' = [disp EXCEPT ![d].pc = "after"]
    /\ UNCHANGED <<jobs, job, pending_jobs, running, paused, cancelled,
                   max_concurrent_jobs, executorQ, adders, finishQ,
                   completedEmits, pendingAtCancel, removedObjs, calls, batchJobs>>
    /\ UNCHANGED nonSchedulerVars

process_jobs_get(d) ==
    /\ disp[d].pc = "get"
    /\ IF pending_jobs # <<>>
       THEN /\ disp' = [disp EXCEPT ![d] = [pc |-> "got", held |-> Head(pending_jobs)]]
            /\ pending_jobs' = Tail(pending_jobs)
       ELSE \* except Empty
            /\ disp' = [disp EXCEPT ![d].pc =
                           IF active_jobs(jobs, job) = {} THEN "after" ELSE "top"]
            /\ UNCHANGED pending_jobs
    /\ UNCHANGED <<jobs, job, running, paused, cancelled,
                   max_concurrent_jobs, executorQ, adders, finishQ,
                   completedEmits, pendingAtCancel, removedObjs, calls, batchJobs>>
    /\ UNCHANGED nonSchedulerVars

process_jobs_submit(d) ==
    /\ disp[d].pc = "got"
    /\ IF cancelled
       THEN /\ disp' = [disp EXCEPT ![d] = [pc |-> "after", held |-> 0]]
            /\ UNCHANGED executorQ
       ELSE /\ executorQ' = Append(executorQ, disp[d].held)
            /\ disp' = [disp EXCEPT ![d] = [pc |-> "top", held |-> 0]]
    /\ UNCHANGED <<jobs, job, pending_jobs, running, paused, cancelled,
                   max_concurrent_jobs, adders, finishQ,
                   completedEmits, pendingAtCancel, removedObjs, calls, batchJobs>>
    /\ UNCHANGED nonSchedulerVars

\* "if not self.cancelled: self.running = False; ...; self.batch_completed.emit()"
process_jobs_exit(d) ==
    /\ disp[d].pc = "after"
    /\ disp' = [disp EXCEPT ![d].pc = "done"]
    /\ IF ~cancelled
       THEN /\ running' = FALSE
            /\ completedEmits' = completedEmits + 1
       ELSE UNCHANGED <<running, completedEmits>>
    /\ UNCHANGED <<jobs, job, pending_jobs, paused, cancelled,
                   max_concurrent_jobs, executorQ, adders, finishQ,
                   pendingAtCancel, removedObjs, calls, batchJobs>>
    /\ UNCHANGED nonSchedulerVars

(***************************************************************************)
(* _process_job on a worker of ThreadPoolExecutor(max_workers).            *)
(***************************************************************************)
BusyWorkers == {o \in Objs : job[o].wpc \in {"began", "wait"}}

worker_available_unbounded(busy, n) == TRUE

\* ThreadPoolExecutor(max_workers=max_concurrent_jobs)
worker_available(busy, n) == Cardinality(busy) < n

\* job.status = "processing"
process_job_begin ==
    /\ executorQ # <<>>
    /\ worker_available(BusyWorkers, max_concurrent_jobs)
    /\ LET o == Head(executorQ)
       IN job' = [job EXCEPT ![o] = [@ EXCEPT !.status = "processing", !.wpc = "began"]]
    /\ executorQ' = Tail(executorQ)
    /\ UNCHANGED <<jobs, pending_jobs, running, paused, cancelled,
                   max_concurrent_jobs, disp, adders, finishQ,
                   completedEmits, pendingAtCancel, removedObjs, calls, batchJobs>>
    /\ UNCHANGED nonSchedulerVars

\* the runner is created, connected and started; the worker then waits
process_job_start(o) ==
    /\ job[o].wpc = "began"
    /\ job' = [job EXCEPT ![o] = [@ EXCEPT !.rpc = "running", !.wpc = "wait"]]
    /\ UNCHANGED <<jobs, pending_jobs, running, paused, cancelled,
                   max_concurrent_jobs, executorQ, disp, adders, finishQ,
                   completedEmits, pendingAtCancel, removedObjs, calls, batchJobs>>
    /\ UNCHANGED nonSchedulerVars

\* the constructor of the runner raises ("输入文件夹中没有找到视频文件")
process_job_raise(o) ==
    /\ job[o].wpc = "began"
    /\ job' = [job EXCEPT ![o] = [@ EXCEPT !.status = "failed", !.wpc = "done"]]
    /\ UNCHANGED <<jobs, pending_jobs, running, paused, cancelled,
                   max_concurrent_jobs, executorQ, disp, adders, finishQ,
                   completedEmits, pendingAtCancel, removedObjs, calls, batchJobs>>
    /\ UNCHANGED nonSchedulerVars

\* processor.wait() returns
process_job_return(o) ==
    /\ job[o].wpc = "wait"
    /\ job[o].rpc = "finished"
    /\ job' = [job EXCEPT ![o].wpc = "done"]
    /\ UNCHANGED <<jobs, pending_jobs, running, paused, cancelled,
                   max_concurrent_jobs, executorQ, disp, adders, finishQ,
                   completedEmits, pendingAtCancel, removedObjs, calls, batchJobs>>
    /\ UNCHANGED nonSchedulerVars

(***************************************************************************)
(* The runner thread (VideoProcessor.run, FFmpegGPUProcessor.run,          *)
(* VideoSplitter.run) as far as the scheduler sees it.                     *)
(***************************************************************************)
\* "合成第i个视频时出错" is emitted and the loop goes on (merge runners)
runner_item_error(o) ==
    /\ job[o].rpc = "running"
    /\ job[o].type = "merge"
    /\ ~job[o].stop
    /\ Len(finishQ) < MaxQueued
    /\ finishQ' = Append(finishQ, <<job[o].folder, "error">>)
    /\ UNCHANGED <<jobs, job, pending_jobs, running, paused, cancelled,
                   max_concurrent_jobs, executorQ, disp, adders,
                   completedEmits, pendingAtCancel, removedObjs, calls, batchJobs>>
    /\ UNCHANGED nonSchedulerVars

\* the last notification of a run
FinalMessages(j) ==
    IF j.stop THEN {"cancelled"}
    ELSE IF j.type = "merge" THEN {"all_done", "shortage", "error"}
    ELSE {"all_done", "error"}

runner_finish(o, m) ==
    /\ job[o].rpc = "running"
    /\ m \in FinalMessages(job[o])
    /\ Len(finishQ) <= MaxQueued
    /\ finishQ' = Append(finishQ, <<job[o].folder, m>>)
    /\ job' = [job EXCEPT ![o].rpc = "finished"]
    /\ UNCHANGED <<jobs, pending_jobs, running, paused, cancelled,
                   max_concurrent_jobs, executorQ, disp, adders,
                   completedEmits, pendingAtCancel, removedObjs, calls, batchJobs>>
    /\ UNCHANGED nonSchedulerVars

(***************************************************************************)
(* _on_job_finished with _check_batch_completion, under the lock.          *)
(***************************************************************************)
job_finished_status(m) == IF ContainsWanCheng(m) THEN "completed" ELSE "failed"

\* _check_batch_completion: TRUE when batch_completed is emitted
check_batch_completion(r, js, jb) == r /\ active_jobs(js, jb) = {}

on_job_finished ==
    /\ finishQ # <<>>
    /\ LET f == Head(finishQ)[1]
           m == Head(finishQ)[2]
       IN IF jobs[f] # 0
          THEN LET jb == [job EXCEPT ![jobs[f]].status = job_finished_status(m)]
               IN /\ job' = jb
                  /\ IF check_batch_completion(running, jobs, jb)
                     THEN /\ running' = FALSE
                          /\ completedEmits' = completedEmits + 1
                     ELSE UNCHANGED <<running, completedEmits>>
          ELSE UNCHANGED <<job, running, completedEmits>>
    /\ finishQ' = Tail(finishQ)
    /\ UNCHANGED <<jobs, pending_jobs, paused, cancelled,
                   max_concurrent_jobs, executorQ, disp, adders,
                   pendingAtCancel, removedObjs, calls, batchJobs>>
    /\ UNCHANGED nonSchedulerVars

(***************************************************************************)
(* Error Classifier (core/task_manager.py, class ErrorClassifier).         *)
(* An error text is the sequence of its characters.                        *)
(***************************************************************************)
FailureReasons == {"unknown", "file_not_found", "insufficient_memory",
                   "disk_full", "permission_denied", "ffmpeg_error",
                   "timeout", "corruption"}

\* sample texts of raised errors
ErrorText ==
    [no_such_file |-> <<"N", "o", " ", "s", "u", "c", "h", " ", "f", "i", "l", "e", ":", " ", "x", ".", "m", "p", "4">>,
     out_of_memory |-> <<"O", "u", "t", " ", "o", "f", " ", "m", "e", "m", "o", "r", "y">>,
     no_space |-> <<"N", "o", " ", "s", "p", "a", "c", "e", " ", "l", "e", "f", "t", " ", "o", "n", " ", "d", "e", "v", "i", "c", "e">>,
     denied |-> <<"P", "e", "r", "m", "i", "s", "s", "i", "o", "n", " ", "d", "e", "n", "i", "e", "d">>,
     ffmpeg |-> <<"F", "F", "m", "p", "e", "g", ":", " ", "I", "n", "v", "a", "l", "i", "d", " ", "a", "r", "g", "u", "m", "e", "n", "t">>,
     timed_out |-> <<"T", "i", "m", "e", "d", " ", "o", "u", "t">>,
     invalid |-> <<"I", "n", "v", "a", "l", "i", "d", " ", "d", "a", "t", "a">>,
     other |-> <<"b", "o", "o", "m">>]

ErrorMessages == {ErrorText[k] : k \in DOMAIN ErrorText}

\* the substrings classify_error looks for
Keyword ==
    [no_such_file |-> <<"n", "o", " ", "s", "u", "c", "h", " ", "f", "i", "l", "e">>,
     file_not_found |-> <<"f", "i", "l", "e", " ", "n", "o", "t", " ", "f", "o", "u", "n", "d">>,
     memory |-> <<"m", "e", "m", "o", "r", "y">>,
     out_of_memory |-> <<"o", "u", "t", " ", "o", "f", " ", "m", "e", "m", "o", "r", "y">>,
     no_space_left |-> <<"n", "o", " ", "s", "p", "a", "c", "e", " ", "l", "e", "f", "t">>,
     disk_full |-> <<"d", "i", "s", "k", " ", "f", "u", "l", "l">>,
     permission_denied |-> <<"p", "e", "r", "m", "i", "s", "s", "i", "o", "n", " ", "d", "e", "n", "i", "e", "d">>,
     access_denied |-> <<"a", "c", "c", "e", "s", "s", " ", "d", "e", "n", "i", "e", "d">>,
     ffmpeg |-> <<"f", "f", "m", "p", "e", "g">>,
     timeout |-> <<"t", "i", "m", "e", "o", "u", "t">>,
     timed_out |-> <<"t", "i", "m", "e", "d", " ", "o", "u", "t">>,
     corrupt |-> <<"c", "o", "r", "r", "u", "p", "t">>,
     invalid |-> <<"i", "n", "v", "a", "l", "i", "d">>]

UpperToLower == "F" :> "f" @@ "I" :> "i" @@ "N" :> "n" @@ "O" :> "o" @@ "P" :> "p" @@ "T" :> "t"

\* str(error).lower()
Lower(text) ==
    [i \in 1..Len(text) |->
        IF text[i] \in DOMAIN UpperToLower THEN UpperToLower[text[i]] ELSE text[i]]

\* kw in text
Contains(text, kw) ==
    \E i \in 1..(Len(text) - Len(kw) + 1) : SubSeq(text, i, i + Len(kw) - 1) = kw

classify_error_unknown(error) == "unknown"

classify_error(error) ==
    LET error_str == Lower(error)
    IN IF Contains(error_str, Keyword.no_such_file) \/ Contains(error_str, Keyword.file_not_found)
       THEN "file_not_found"
       ELSE IF Contains(error_str, Keyword.memory) \/ Contains(error_str, Keyword.out_of_memory)
       THEN "insufficient_memory"
       ELSE IF Contains(error_str, Keyword.no_space_left) \/ Contains(error_str, Keyword.disk_full)
       THEN "disk_full"
       ELSE IF Contains(error_str, Keyword.permission_denied) \/ Contains(error_str, Keyword.access_denied)
       THEN "permission_denied"
       ELSE IF Contains(error_str, Keyword.ffmpeg)
       THEN "ffmpeg_error"
       ELSE IF Contains(error_str, Keyword.timeout) \/ Contains(error_str, Keyword.timed_out)
       THEN "timeout"
       ELSE IF Contains(error_str, Keyword.corrupt) \/ Contains(error_str, Keyword.invalid)
       THEN "corruption"
       ELSE "unknown"

no_retry_reasons == {"file_not_found", "permission_denied", "corruption"}

RetryLimit == 3

should_retry_inclusive(failure_reason, retry_count) ==
    IF failure_reason \in no_retry_reasons THEN FALSE
    ELSE IF failure_reason = "disk_full" /\ retry_count >= 1 THEN FALSE
    ELSE retry_count <= RetryLimit

should_retry(failure_reason, retry_count) ==
    IF failure_reason \in no_retry_reasons THEN FALSE
    ELSE IF failure_reason = "disk_full" /\ retry_count >= 1 THEN FALSE
    ELSE retry_count < RetryLimit

NoQuery == [reason |-> "unknown", retry_count |-> 0, asked |-> FALSE, result |-> FALSE]

ClassifierIdle == query = NoQuery

ClassifierInit ==
    \E r \in FailureReasons, n \in 0..MaxRetryCount :
        query = [reason |-> r, retry_count |-> n, asked |-> FALSE, result |-> FALSE]

call_should_retry ==
    /\ ~query.asked
    /\ query' = [query EXCEPT !.asked = TRUE,
                              !.result = should_retry(query.reason, query.retry_count)]
    /\ UNCHANGED nonClassifierVars

(***************************************************************************)
(* Task Store and Retry Executor (core/task_manager.py, classes            *)
(* TaskManager and RobustTaskExecutor).                                    *)
(***************************************************************************)
TaskIds == 1..MaxTasks

\* the errors processor_func raises in this model
RaisedErrors == {ErrorText.no_such_file, ErrorText.no_space, ErrorText.other}

\* "任务执行失败", the text execute_task passes to mark_task_failed for a run
\* that returned false; it holds none of the classifier's keywords
MsgReturnedFalse == <<"task execution failed">>

\* the values of the members of TaskStatus
TaskStatusValues == {"pending", "running", "completed", "failed",
                     "cancelled", "retrying"}

TaskInfo(m) == [status |-> "pending", retry_count |-> 0, max_retries |-> m,
                failure_reason |-> "none", error_message |-> <<>>]

NoTask == [status |-> "none", retry_count |-> 0, max_retries |-> 0,
           failure_reason |-> "none", error_message |-> <<>>]

(***************************************************************************)
(* The job file.  A member of an enum is written as the JSON string of its *)
(* value, None as JSON null; numbers and texts are written as they are.    *)
(***************************************************************************)
JsonNull == [json |-> "null", text |-> ""]
JsonString(v) == [json |-> "string", text |-> v]

\* current_job.  raw: the status attribute holds the plain string load_job
\* read and not a member of TaskStatus
NoJobInfo == [status |-> "none", raw |-> FALSE]
NewJobInfo == [status |-> "pending", raw |-> FALSE]

NoFile == [exists |-> FALSE, job_status |-> JsonNull, tasks |-> <<>>]

\* task_data['status'].value
save_status(st) == JsonString(st)

save_failure_reason_dropped(r) == JsonNull

\* "if task_data['failure_reason']: ... .value"
save_failure_reason(r) == IF r # "none" THEN JsonString(r) ELSE JsonNull

\* asdict(task) with the enum fields replaced by their values
task_to_json(t) ==
    [status |-> save_status(t.status),
     retry_count |-> t.retry_count,
     max_retries |-> t.max_retries,
     failure_reason |-> save_failure_reason(t.failure_reason),
     error_message |-> t.error_message]

save_tasks(ts) == [t \in DOMAIN ts |-> task_to_json(ts[t])]

\* TaskStatus(task.status) does not raise
load_status_ok(j) == j.json = "string" /\ j.text \in TaskStatusValues

\* "if task.failure_reason: task.failure_reason = FailureReason(...)" does not raise
load_reason_ok(j) ==
    \/ j.json = "null"
    \/ j.json = "string" /\ j.text \in FailureReasons

task_loads(j) == load_status_ok(j.status) /\ load_reason_ok(j.failure_reason)

\* TaskInfo(**task_data) with the two enum fields converted
json_to_task(j) ==
    [status |-> j.status.text,
     retry_count |-> j.retry_count,
     max_retries |-> j.max_retries,
     failure_reason |-> IF j.failure_reason.json = "null" THEN "none"
                        ELSE j.failure_reason.text,
     error_message |-> j.error_message]

\* load_job returns True
load_succeeds(file_tasks) == \A t \in DOMAIN file_tasks : task_loads(file_tasks[t])

\* self.tasks after load_job: the tasks read before the first one that raises
load_tasks(file_tasks) ==
    [t \in DOMAIN file_tasks |->
        IF \A u \in DOMAIN file_tasks : u <= t => task_loads(file_tasks[u])
        THEN json_to_task(file_tasks[t])
        ELSE NoTask]

\* _update_job_progress, the status of the job
update_job_progress(cj, ts) ==
    IF cj.status = "none" THEN cj
    ELSE IF \A t \in DOMAIN ts : ts[t].status = "completed"
         THEN [status |-> "completed", raw |-> FALSE]
         ELSE cj

TaskStoreIdle ==
    /\ tasks = [t \in TaskIds |-> NoTask]
    /\ executing = 0
    /\ timers = [t \in TaskIds |-> 0]
    /\ current_job = NoJobInfo
    /\ jobFile = NoFile
    /\ lastOp = "none"
    /\ storeCalls = 0

\* the store holding a job whose tasks all carry max_retries m, and the file
\* of that job as create_batch_job saved it
TaskStoreWith(m) ==
    /\ tasks = [t \in TaskIds |-> TaskInfo(m)]
    /\ executing = 0
    /\ timers = [t \in TaskIds |-> 0]
    /\ current_job = NewJobInfo
    /\ jobFile = [exists |-> TRUE, job_status |-> JsonString(current_job.status),
                  tasks |-> save_tasks(tasks)]
    /\ lastOp = "create"
    /\ storeCalls = 0

\* max_retries is whatever the tasks of the job carry
TaskStoreInit == \E m \in 0..MaxCarriedRetries : TaskStoreWith(m)

DefaultMaxRetries == 3

\* create_batch_job: _generate_tasks gives max_retries=3 to every task
create_batch_job == TaskStoreWith(DefaultMaxRetries)

\* get_resumable_tasks
Resumable(t) ==
    /\ t.status \in {"pending", "failed"}
    /\ ~(t.status = "failed" /\ t.retry_count >= t.max_retries)

\* mark_task_failed schedules a retry
SchedulesRetry(t) == t.retry_count < t.max_retries

\* self.retry_delays, in seconds
retry_delays == <<1, 2, 4, 8, 16>>

\* the sleep of retry_task: "delay_index = min(task.retry_count - 1,
\* len(self.retry_delays) - 1)", "delay = self.retry_delays[delay_index]".
\* A negative index of a Python list counts from its end.
retry_delay(retry_count) ==
    LET last == Len(retry_delays) - 1
        delay_index == IF retry_count - 1 < last THEN retry_count - 1 ELSE last
    IN IF delay_index >= 0
       THEN retry_delays[delay_index + 1]
       ELSE retry_delays[Len(retry_delays) + delay_index + 1]

mark_task_failed_keeps_reason(t, error_message, failure_reason) ==
    [t EXCEPT !.status = "failed", !.error_message = error_message]

mark_task_failed(t, error_message, failure_reason) ==
    [t EXCEPT !.status = "failed", !.error_message = error_message,
              !.failure_reason = failure_reason]

\* execute_task up to mark_task_started, for a task of RobustVideoProcessor.run
execute_task_begin(id) ==
    /\ executing = 0
    /\ Resumable(tasks[id])
    /\ tasks' = [tasks EXCEPT ![id].status = "running"]
    /\ current_job' = update_job_progress(current_job, tasks')
    /\ executing' = id
    /\ lastOp' = "begin"
    /\ UNCHANGED <<timers, jobFile, storeCalls>>
    /\ UNCHANGED nonTaskVars

execute_task_succeed ==
    /\ executing # 0
    /\ tasks' = [tasks EXCEPT ![executing].status = "completed"]
    /\ current_job' = update_job_progress(current_job, tasks')
    /\ executing' = 0
    /\ lastOp' = "succeed"
    /\ UNCHANGED <<timers, jobFile, storeCalls>>
    /\ UNCHANGED nonTaskVars

FailAndSchedule(id, failed) ==
    /\ tasks' = [tasks EXCEPT ![id] = failed]
    /\ current_job' = update_job_progress(current_job, tasks')
    /\ IF SchedulesRetry(failed)
       THEN /\ timers[id] < MaxTimers
            /\ timers' = [timers EXCEPT ![id] = @ + 1]
       ELSE UNCHANGED timers

\* processor_func returned a false value
execute_task_false ==
    /\ executing # 0
    /\ FailAndSchedule(executing,
           mark_task_failed(tasks[executing], MsgReturnedFalse, "unknown"))
    /\ executing' = 0
    /\ lastOp' = "false"
    /\ UNCHANGED <<jobFile, storeCalls>>
    /\ UNCHANGED nonTaskVars

retry_count_after_counted(task, retry) == task.retry_count + 1

\* retry_count after the except branch of execute_task
retry_count_after(task, retry) ==
    IF retry THEN task.retry_count + 1 ELSE task.max_retries

\* processor_func raised e
execute_task_raise(e) ==
    /\ executing # 0
    /\ LET task == tasks[executing]
           failure_reason == classify_error(e)
           retry == should_retry(failure_reason, task.retry_count)
           counted == [task EXCEPT !.retry_count = retry_count_after(task, retry)]
       IN FailAndSchedule(executing, mark_task_failed(counted, e, failure_reason))
    /\ executing' = 0
    /\ lastOp' = "raise"
    /\ UNCHANGED <<jobFile, storeCalls>>
    /\ UNCHANGED nonTaskVars

retry_flip_always(t) == [t EXCEPT !.status = "pending", !.error_message = <<>>]

\* "if ... self.tasks[task_id].status == TaskStatus.FAILED: ..."
retry_flip(t) ==
    IF t.status = "failed"
    THEN [t EXCEPT !.status = "pending", !.error_message = <<>>]
    ELSE t

\* retry_task, after its sleep
retry_task(id) ==
    /\ timers[id] > 0
    /\ timers' = [timers EXCEPT ![id] = @ - 1]
    /\ tasks' = [tasks EXCEPT ![id] = retry_flip(@)]
    /\ lastOp' = "retry"
    /\ UNCHANGED <<executing, current_job, jobFile, storeCalls>>
    /\ UNCHANGED nonTaskVars

\* save_state: by RobustVideoProcessor.run after each task and by the
\* auto-save timer
write_job_file ==
    /\ current_job.status # "none"
    /\ jobFile' = [exists |-> TRUE,
                   job_status |-> JsonString(current_job.status),
                   tasks |-> save_tasks(tasks)]
    /\ lastOp' = "save"
    /\ UNCHANGED <<tasks, executing, timers, current_job>>
    /\ UNCHANGED nonTaskVars

save_state ==
    /\ storeCalls < MaxStoreCalls
    /\ storeCalls' = storeCalls + 1
    /\ write_job_file

\* load_job, called between runs (RobustVideoProcessor.resume_job)
load_job ==
    /\ storeCalls < MaxStoreCalls
    /\ storeCalls' = storeCalls + 1
    /\ jobFile.exists
    /\ executing = 0
    /\ tasks' = load_tasks(jobFile.tasks)
    /\ current_job' = [status |-> jobFile.job_status.text, raw |-> TRUE]
    /\ lastOp' = "load"
    /\ UNCHANGED <<executing, timers, jobFile>>
    /\ UNCHANGED nonTaskVars


(***************************************************************************)
(* Process Supervisor (core/process_controller.py, class                   *)
(* ProcessController).  Every child process p may come with one temp file  *)
(* <<p, "temp">> and one output file <<p, "out">>.                         *)
(*   proc[p].state  "unborn", "alive" or "exited" (poll() is not None)     *)
(*   proc[p].term, proc[p].kill  terminate() / kill() was sent             *)
(*   disk[f]  "absent"; "partial": present (an output file that is smaller *)
(*            than 1MB or was modified in the last 30 s); "full": an       *)
(*            output file that is neither; "locked": a temp file whose     *)
(*            unlink raises                                                *)
(***************************************************************************)
Procs == 1..MaxProcs
Files == Procs \X {"temp", "out"}

NoCall == [pc |-> "idle", polls |-> 0, result |-> "none", tracked |-> {},
           temps |-> {}, outs |-> {}, cleanup |-> FALSE, deleted |-> {},
           exited |-> {}]

ControllerInit ==
    /\ active_processes = <<>>
    /\ temp_files = {}
    /\ output_files = {}
    /\ ctl_cancelled = FALSE
    /\ cleanup_on_cancel = TRUE
    /\ proc = [p \in Procs |-> [state |-> "unborn", term |-> FALSE, kill |-> FALSE]]
    /\ disk = [f \in Files |-> "absent"]
    /\ cancelCall = NoCall

\* no cancel_all call holds the lock
LockFree == cancelCall.pc \in {"idle", "returned"}

Tracked(ps) == {ps[i] : i \in 1..Len(ps)}

\* process.poll() is None
IsAlive(p) == proc[p].state = "alive"

add_process(p, with_temp, locked, with_output) ==
    /\ LockFree
    /\ proc[p].state = "unborn"
    /\ \A q \in Procs : q < p => proc[q].state # "unborn"
    /\ proc' = [proc EXCEPT ![p].state = "alive"]
    /\ active_processes' = Append(active_processes, p)
    /\ temp_files' = IF with_temp THEN temp_files \cup {<<p, "temp">>} ELSE temp_files
    /\ output_files' = IF with_output THEN output_files \cup {<<p, "out">>}
                       ELSE output_files
    /\ disk' = [f \in Files |->
                  IF f = <<p, "temp">> /\ with_temp
                  THEN (IF locked THEN "locked" ELSE "partial")
                  ELSE IF f = <<p, "out">> /\ with_output THEN "partial"
                  ELSE disk[f]]
    /\ UNCHANGED <<ctl_cancelled, cleanup_on_cancel, cancelCall>>
    /\ UNCHANGED nonControllerVars

remove_process(p) ==
    /\ LockFree
    /\ p \in Tracked(active_processes)
    /\ active_processes' = SelectSeq(active_processes, LAMBDA q : q # p)
    /\ UNCHANGED <<temp_files, output_files, ctl_cancelled, cleanup_on_cancel,
                   proc, disk, cancelCall>>
    /\ UNCHANGED nonControllerVars

set_cleanup_on_cancel(cleanup) ==
    /\ LockFree
    /\ cleanup # cleanup_on_cancel
    /\ cleanup_on_cancel' = cleanup
    /\ UNCHANGED <<active_processes, temp_files, output_files, ctl_cancelled,
                   proc, disk, cancelCall>>
    /\ UNCHANGED nonControllerVars

\* the child process ends, by itself or after a terminate
proc_exit(p) ==
    /\ IsAlive(p)
    /\ proc' = [proc EXCEPT ![p].state = "exited"]
    /\ UNCHANGED <<active_processes, temp_files, output_files, ctl_cancelled,
                   cleanup_on_cancel, disk, cancelCall>>
    /\ UNCHANGED nonControllerVars

\* the output of an ended process is 1MB or more and 30 s have passed
output_settles(p) ==
    /\ LockFree
    /\ proc[p].state = "exited"
    /\ disk[<<p, "out">>] = "partial"
    /\ disk' = [disk EXCEPT ![<<p, "out">>] = "full"]
    /\ UNCHANGED <<active_processes, temp_files, output_files, ctl_cancelled,
                   cleanup_on_cancel, proc, cancelCall>>
    /\ UNCHANGED nonControllerVars

\* phase 1: "for process in self._active_processes[:]: if process.poll() is None"
terminate_targets(ps) == {p \in Tracked(ps) : IsAlive(p)}

\* cancel_all up to the wait loop, or its return when nothing is registered
cancel_begin(timeout) ==
    /\ LockFree
    /\ ctl_cancelled' = TRUE
    /\ LET call == [NoCall EXCEPT !.tracked = Tracked(active_processes),
                                  !.temps = temp_files,
                                  !.outs = output_files,
                                  !.cleanup = cleanup_on_cancel,
                                  !.exited = {p \in Procs : proc[p].state = "exited"}]
       IN IF active_processes = <<>>
          THEN /\ cancelCall' = [call EXCEPT !.pc = "returned", !.result = "true"]
               /\ UNCHANGED proc
          ELSE /\ cancelCall' = [call EXCEPT !.pc = "wait", !.polls = timeout]
               /\ proc' = [p \in Procs |->
                             IF p \in terminate_targets(active_processes)
                             THEN [proc[p] EXCEPT !.term = TRUE]
                             ELSE proc[p]]
    /\ UNCHANGED <<active_processes, temp_files, output_files,
                   cleanup_on_cancel, disk>>
    /\ UNCHANGED nonControllerVars

\* one pass of the for loop inside the wait loop: the processes before the
\* first live one are removed
RECURSIVE drop_exited_prefix(_)
drop_exited_prefix(ps) ==
    IF ps = <<>> THEN <<>>
    ELSE IF IsAlive(Head(ps)) THEN ps
    ELSE drop_exited_prefix(Tail(ps))

\* one iteration of "while time.time() - start_time < timeout"
cancel_poll ==
    /\ cancelCall.pc = "wait"
    /\ cancelCall.polls > 0
    /\ active_processes' = drop_exited_prefix(active_processes)
    /\ cancelCall' = IF active_processes' = <<>>
                     THEN [cancelCall EXCEPT !.pc = "kill"]
                     ELSE [cancelCall EXCEPT !.polls = @ - 1]
    /\ UNCHANGED <<temp_files, output_files, ctl_cancelled, cleanup_on_cancel,
                   proc, disk>>
    /\ UNCHANGED nonControllerVars

\* phase 2: every process that is still alive is killed and, whether or not
\* it ended within wait(timeout=1.0), removed
cancel_kill ==
    /\ \/ cancelCall.pc = "kill"
       \/ cancelCall.pc = "wait" /\ cancelCall.polls = 0
    /\ LET alive == {p \in Tracked(active_processes) : IsAlive(p)}
       IN /\ \E survivors \in SUBSET alive :
                proc' = [p \in Procs |->
                           IF p \in alive
                           THEN [proc[p] EXCEPT !.kill = TRUE,
                                                !.state = IF p \in survivors
                                                          THEN "alive" ELSE "exited"]
                           ELSE proc[p]]
          /\ active_processes' = SelectSeq(active_processes, LAMBDA p : p \notin alive)
    /\ cancelCall' = [cancelCall EXCEPT !.pc = "cleanup"]
    /\ UNCHANGED <<temp_files, output_files, ctl_cancelled, cleanup_on_cancel, disk>>
    /\ UNCHANGED nonControllerVars

\* _cleanup_files: the files it unlinks
cleanup_deletes(temps, outs, dk) ==
    {f \in temps \cup outs : dk[f] = "partial"}

\* "if self._cleanup_on_cancel: self._cleanup_files()" and the return
cancel_return ==
    /\ cancelCall.pc = "cleanup"
    /\ IF cleanup_on_cancel
       THEN LET gone == cleanup_deletes(temp_files, output_files, disk)
            IN /\ disk' = [f \in Files |-> IF f \in gone THEN "absent" ELSE disk[f]]
               /\ temp_files' = {}
               /\ output_files' = {}
               /\ cancelCall' = [cancelCall EXCEPT
                                    !.pc = "returned",
                                    !.deleted = gone,
                                    !.result = IF Len(active_processes) = 0
                                               THEN "true" ELSE "false"]
       ELSE /\ UNCHANGED <<disk, temp_files, output_files>>
            /\ cancelCall' = [cancelCall EXCEPT
                                 !.pc = "returned",
                                 !.result = IF Len(active_processes) = 0
                                            THEN "true" ELSE "false"]
    /\ UNCHANGED <<active_processes, ctl_cancelled, cleanup_on_cancel, proc>>
    /\ UNCHANGED nonControllerVars

ControllerNext ==
    \/ \E p \in Procs, with_temp, locked, with_output \in BOOLEAN :
          add_process(p, with_temp, locked, with_output)
    \/ \E p \in Procs : remove_process(p)
    \/ \E cleanup \in BOOLEAN : set_cleanup_on_cancel(cleanup)
    \/ \E p \in Procs : proc_exit(p)
    \/ \E p \in Procs : output_settles(p)
    \/ \E timeout \in 0..MaxPolls : cancel_begin(timeout)
    \/ cancel_poll
    \/ cancel_kill
    \/ cancel_return


(***************************************************************************)
(* Resource Reclaimer (core/resource_manager.py, class ResourceManager).   *)
(* Times are counted in half seconds; the steps of a call take no time     *)
(* besides their sleeps.                                                   *)
(*   rmEnv.disk[f]   "absent"; "free": unlink succeeds; "locked1": unlink  *)
(*       raises PermissionError "[WinError 32] ..." once and the lock is   *)
(*       released before the next attempt; "locked": unlink raises that    *)
(*       error every time; "denied": unlink raises an error that is no     *)
(*       lock error                                                        *)
(*   rmEnv.proc[p]   "unborn", "alive", "stuck" (alive, and wait(2.0)      *)
(*       times out after kill or terminate), "exited"                      *)
(*   rmEnv.delayed[f]  the time each delayed_cleanup thread of f still     *)
(*       sleeps                                                            *)
(*   rmCall.pc  "idle", "moviepy" (in _cleanup_moviepy_temp_files), "temp" *)
(*       (in _cleanup_temp_files), "done" (before the return), "raised"    *)
(*       (an exception left cleanup_all)                                   *)
(***************************************************************************)
RmFiles == 1..MaxRmFiles
RmProcs == 1..MaxRmProcs
RmClips == 1..MaxRmClips
FileFates == {"free", "locked1", "locked", "denied"}
ProcFates == {"alive", "stuck", "exited"}

\* max_retries of _delete_file_with_retry and of
\* _delete_moviepy_temp_file_with_retry
MaxRetries == [temp |-> 5, moviepy |-> 8]

\* time.sleep(5) of delayed_cleanup
DelayedCleanupSleep == 10

Range(s) == {s[i] : i \in 1..Len(s)}

\* the lists without repetition over S
ListsOf(S) ==
    {s \in UNION {[1..n -> S] : n \in 0..Cardinality(S)} :
        \A i, j \in 1..Len(s) : i # j => s[i] # s[j]}

NoAttempt == [file |-> 0, class |-> "none", attempt |-> 0, result |-> "none",
              wait |-> 0, scheduled |-> 0, retry |-> FALSE]

NoCleanup == [pc |-> "idle", force |-> FALSE, calls |-> 0, todo |-> <<>>,
              attempt |-> 0, temps |-> <<>>, moviepy |-> <<>>,
              fates |-> [f \in RmFiles |-> "absent"],
              tried |-> [f \in RmFiles |-> 0],
              handled |-> {}, errors |-> {}, last |-> NoAttempt]

ReclaimerInit ==
    /\ reclaimer = [active_clips |-> <<>>, temp_files |-> <<>>,
                    processes |-> <<>>, audio_readers |-> <<>>,
                    moviepy_temp_files |-> <<>>]
    /\ rmEnv = [disk |-> [f \in RmFiles |-> "absent"],
                proc |-> [p \in RmProcs |-> "unborn"],
                delayed |-> [f \in RmFiles |-> <<>>]]
    /\ rmCall = NoCleanup

\* the registrations run under the lock cleanup_all holds
Registering == rmCall.pc = "idle" /\ rmCall.calls < MaxCleanups

register_clip(c) ==
    /\ Registering
    /\ c \notin Range(reclaimer.active_clips)
    /\ reclaimer' = [reclaimer EXCEPT !.active_clips = Append(@, c)]
    /\ UNCHANGED <<rmEnv, rmCall>>
    /\ UNCHANGED nonReclaimerVars

register_audio_reader(r) ==
    /\ Registering
    /\ r \notin Range(reclaimer.audio_readers)
    /\ reclaimer' = [reclaimer EXCEPT !.audio_readers = Append(@, r)]
    /\ UNCHANGED <<rmEnv, rmCall>>
    /\ UNCHANGED nonReclaimerVars

\* the file is in the state fate unless it exists already; a file that was
\* deleted since is registered as it is
register_temp_file(f, fate) ==
    /\ Registering
    /\ f \notin Range(reclaimer.temp_files)
    /\ reclaimer' = [reclaimer EXCEPT !.temp_files = Append(@, f)]
    /\ rmEnv' = [rmEnv EXCEPT !.disk[f] = IF @ = "absent" THEN fate ELSE @]
    /\ UNCHANGED rmCall
    /\ UNCHANGED nonReclaimerVars

register_moviepy_temp_file(f, fate) ==
    /\ Registering
    /\ f \notin Range(reclaimer.moviepy_temp_files)
    /\ reclaimer' = [reclaimer EXCEPT !.moviepy_temp_files = Append(@, f)]
    /\ rmEnv' = [rmEnv EXCEPT !.disk[f] = IF @ = "absent" THEN fate ELSE @]
    /\ UNCHANGED rmCall
    /\ UNCHANGED nonReclaimerVars

register_process(p, fate) ==
    /\ Registering
    /\ p \notin Range(reclaimer.processes)
    /\ reclaimer' = [reclaimer EXCEPT !.processes = Append(@, p)]
    /\ rmEnv' = [rmEnv EXCEPT !.proc[p] = fate]
    /\ UNCHANGED rmCall
    /\ UNCHANGED nonReclaimerVars

\* the delayed_cleanup threads after w half seconds
Elapse(delayed, w) ==
    [f \in RmFiles |->
        [i \in 1..Len(delayed[f]) |->
            IF delayed[f][i] > w THEN delayed[f][i] - w ELSE 0]]

\* cleanup_all up to its time.sleep: _cleanup_audio_readers, _cleanup_clips,
\* _cleanup_processes and, with force, _force_kill_ffmpeg_processes.  Each
\* loop handles every entry, catches what close, kill, terminate or wait
\* raises, and clears its list.  broken: the clips and readers whose close
\* raises.
cleanup_all_begin(force) ==
    /\ Registering
    /\ \E broken \in SUBSET ((Range(reclaimer.active_clips) \X {"clip"})
                               \cup (Range(reclaimer.audio_readers) \X {"reader"})) :
         LET procs == Range(reclaimer.processes)
             stuck == {p \in procs : rmEnv.proc[p] = "stuck"}
             slept == (IF force THEN 2 ELSE 1) + 4 * Cardinality(stuck)
         IN /\ rmEnv' = [rmEnv EXCEPT
                   !.proc = [p \in RmProcs |->
                                IF p \in procs /\ @[p] = "alive"
                                THEN "exited" ELSE @[p]],
                   !.delayed = Elapse(@, slept)]
            /\ rmCall' = [NoCleanup EXCEPT
                   !.pc = "moviepy",
                   !.force = force,
                   !.calls = rmCall.calls + 1,
                   !.todo = reclaimer.moviepy_temp_files,
                   !.temps = reclaimer.temp_files,
                   !.moviepy = reclaimer.moviepy_temp_files,
                   !.fates = rmEnv.disk,
                   !.handled = (Range(reclaimer.active_clips) \X {"clip"})
                                 \cup (Range(reclaimer.audio_readers) \X {"reader"})
                                 \cup (procs \X {"process"}),
                   !.errors = broken \cup (stuck \X {"process"})]
    /\ reclaimer' = [reclaimer EXCEPT !.active_clips = <<>>,
                                      !.audio_readers = <<>>,
                                      !.processes = <<>>]
    /\ UNCHANGED nonReclaimerVars

\* os.unlink on a file in state d: what it raises, and the file afterwards
unlink_result(d) ==
    CASE d = "free" -> "ok"
      [] d \in {"locked1", "locked"} -> "lock"
      [] d = "denied" -> "denied"
      [] OTHER -> "missing"

after_unlink(d) ==
    CASE d = "free" -> "absent"
      [] d = "locked1" -> "free"
      [] OTHER -> d

Min(a, b) == IF a < b THEN a ELSE b

\* the sleep after the failed attempt number attempt:
\* time.sleep(0.5 * (attempt + 1)), time.sleep(min(2.0 ** attempt, 10.0))
retry_wait(class, attempt) ==
    IF class = "moviepy" THEN 2 * Min(2 ^ attempt, 10) ELSE attempt + 1

delayed_never_scheduled(class, result, attempt) == 0

\* _schedule_delayed_cleanup is called after the last attempt failed on a lock
delayed_scheduled(class, result, attempt) ==
    IF result = "lock" /\ attempt = MaxRetries[class] - 1 THEN 1 ELSE 0

cleanup_files_reraise(class, exc) == "raised"

\* "except Exception as e: print(...)" of _cleanup_temp_files and
\* _cleanup_moviepy_temp_files: the loop goes on
cleanup_files_except(class, exc) == class

\* one pass of the loop of _cleanup_temp_files / _cleanup_moviepy_temp_files
\* for a file that does not exist, or one os.unlink of the retry loop
delete_attempt ==
    /\ rmCall.pc \in {"moviepy", "temp"}
    /\ rmCall.todo # <<>>
    /\ LET class == rmCall.pc
           f == Head(rmCall.todo)
           d == rmEnv.disk[f]
           n == rmCall.attempt
           result == unlink_result(d)
           retry == result = "lock" /\ n < MaxRetries[class] - 1
           wait == IF retry THEN retry_wait(class, n) ELSE 0
           unlock == IF class = "moviepy" /\ n > 2 THEN 1 ELSE 0
           scheduled == delayed_scheduled(class, result, n)
           unlisted == [reclaimer EXCEPT
                           ![IF class = "temp" THEN "temp_files"
                             ELSE "moviepy_temp_files"] =
                               SelectSeq(@, LAMBDA x : x # f)]
       IN IF n = 0 /\ d = "absent"
          THEN /\ reclaimer' = unlisted
               /\ rmCall' = [rmCall EXCEPT !.todo = Tail(@),
                                           !.handled = @ \cup {<<f, class>>}]
               /\ UNCHANGED rmEnv
          ELSE /\ rmEnv' = [rmEnv EXCEPT
                     !.disk[f] = after_unlink(d),
                     !.delayed = [Elapse(@, unlock + wait) EXCEPT
                                     ![f] = IF scheduled = 1
                                            THEN Append(@, DelayedCleanupSleep)
                                            ELSE @]]
               /\ reclaimer' = IF result = "ok" THEN unlisted ELSE reclaimer
               /\ rmCall' = [rmCall EXCEPT
                     !.pc = IF result = "ok" \/ retry THEN class
                            ELSE cleanup_files_except(class, result),
                     !.todo = IF retry THEN @ ELSE Tail(@),
                     !.attempt = IF retry THEN n + 1 ELSE 0,
                     !.tried[f] = @ + 1,
                     !.handled = @ \cup {<<f, class>>},
                     !.errors = IF result = "ok" \/ retry THEN @
                                ELSE @ \cup {<<f, class>>},
                     !.last = [file |-> f, class |-> class, attempt |-> n,
                               result |-> result, wait |-> wait,
                               scheduled |-> scheduled, retry |-> retry]]
    /\ UNCHANGED nonReclaimerVars

\* behind the loop: "self._moviepy_temp_files.clear()" and the call of
\* _cleanup_temp_files, or "self._temp_files.clear()"
cleanup_phase_end ==
    /\ rmCall.pc \in {"moviepy", "temp"}
    /\ rmCall.todo = <<>>
    /\ IF rmCall.pc = "moviepy"
       THEN /\ reclaimer' = [reclaimer EXCEPT !.moviepy_temp_files = <<>>]
            /\ rmCall' = [rmCall EXCEPT !.pc = "temp",
                                        !.todo = reclaimer.temp_files]
       ELSE /\ reclaimer' = [reclaimer EXCEPT !.temp_files = <<>>]
            /\ rmCall' = [rmCall EXCEPT !.pc = "done"]
    /\ UNCHANGED rmEnv
    /\ UNCHANGED nonReclaimerVars

cleanup_all_return ==
    /\ rmCall.pc = "done"
    /\ rmCall' = [rmCall EXCEPT !.pc = "idle"]
    /\ UNCHANGED <<reclaimer, rmEnv>>
    /\ UNCHANGED nonReclaimerVars

\* a delayed_cleanup thread of f behind its sleep; what unlink raises is
\* caught
delayed_cleanup(f) ==
    /\ \E i \in 1..Len(rmEnv.delayed[f]) :
          /\ rmEnv.delayed[f][i] = 0
          /\ rmEnv' = [rmEnv EXCEPT
                !.disk[f] = after_unlink(@),
                !.delayed[f] = SubSeq(@, 1, i - 1) \o SubSeq(@, i + 1, Len(@))]
    /\ UNCHANGED <<reclaimer, rmCall>>
    /\ UNCHANGED nonReclaimerVars

\* time passes while no cleanup_all call runs, until the next thread wakes
rm_tick ==
    /\ rmCall.pc = "idle"
    /\ \E f \in RmFiles : \E i \in 1..Len(rmEnv.delayed[f]) :
          /\ rmEnv.delayed[f][i] > 0
          /\ \A g \in RmFiles : \A j \in 1..Len(rmEnv.delayed[g]) :
                rmEnv.delayed[g][j] > 0 => rmEnv.delayed[f][i] <= rmEnv.delayed[g][j]
          /\ rmEnv' = [rmEnv EXCEPT !.delayed = Elapse(@, rmEnv.delayed[f][i])]
    /\ UNCHANGED <<reclaimer, rmCall>>
    /\ UNCHANGED nonReclaimerVars

ReclaimerNext ==
    \/ \E c \in RmClips : register_clip(c)
    \/ \E r \in RmClips : register_audio_reader(r)
    \/ \E f \in RmFiles, fate \in FileFates : register_temp_file(f, fate)
    \/ \E f \in RmFiles, fate \in FileFates : register_moviepy_temp_file(f, fate)
    \/ \E p \in RmProcs, fate \in ProcFates : register_process(p, fate)
    \/ \E force \in BOOLEAN : cleanup_all_begin(force)
    \/ delete_attempt
    \/ cleanup_phase_end
    \/ cleanup_all_return
    \/ \E f \in RmFiles : delayed_cleanup(f)
    \/ rm_tick

(***************************************************************************)
(* Diversity Selector (core/sequence_selector.py, class                    *)
(* SequenceDiversitySelector).  The materials are file names; a tuple and  *)
(* a JSON array of file names are both the sequence of the names.          *)
(*   selector   the fields of the selector object in use                   *)
(*   selFile    the persistence file: state "none" (no file), "torn" (a    *)
(*              write that failed half way), "json"                        *)
(*   selCall    the running or last get_next_combination[_from_allowed]:   *)
(*              pc "idle", "trying" (in the loop), "returned", "raised"    *)
(*   selHist    returned: the tuples this object returned since it was     *)
(*              constructed or reset; calls: the combinations returned in  *)
(*              this behaviour; saved: the fields as they were when        *)
(*              save_state last wrote the file                             *)
(***************************************************************************)
Materials == {"A", "B", "C"}
Strangers == {"X"}      \* file names that are no materials

\* max_tries of get_next_combination and get_next_combination_from_allowed
max_tries == 30

\* _extract_consecutive_pairs
extract_consecutive_pairs(sequence) ==
    {<<sequence[i], sequence[i + 1]>> : i \in 1..(Len(sequence) - 1)}

is_valid_sequence_ignoring_pairs(sel, sequence) ==
    sequence \notin sel.used_sequences

\* _is_valid_sequence
is_valid_sequence(sel, sequence) ==
    /\ sequence \notin sel.used_sequences
    /\ extract_consecutive_pairs(sequence) \cap sel.used_pairs = {}

\* a list holding the members of the set S (list(a_set), dict keys)
RECURSIVE SetToList(_)
SetToList(S) ==
    IF S = {} THEN <<>>
    ELSE LET x == CHOOSE y \in S : TRUE IN <<x>> \o SetToList(S \ {x})

NoSelFile == [state |-> "none", materials |-> <<>>, per_video |-> 0,
              used_sequences |-> <<>>, used_pairs |-> <<>>,
              material_count |-> <<>>]

\* state_data of save_state as json.dump writes it
state_data(sel) ==
    [state |-> "json", materials |-> sel.materials, per_video |-> sel.per_video,
     used_sequences |-> SetToList(sel.used_sequences),
     used_pairs |-> SetToList(sel.used_pairs),
     material_count |-> sel.material_count]

\* save_state; io: the write succeeds ("ok"), fails before the file is opened
\* ("kept") or fails after it ("torn"); a failure is printed only
save_state_to(file, sel, io) ==
    IF ~sel.persistence_file THEN file
    ELSE CASE io = "ok" -> state_data(sel)
           [] io = "kept" -> file
           [] OTHER -> [NoSelFile EXCEPT !.state = "torn"]

materials_match_ordered(saved_materials, materials) == saved_materials = materials

\* "set(saved_materials) != set(self.materials)" of load_state
materials_match(saved_materials, materials) ==
    Range(saved_materials) = Range(materials)

\* load_state
load_state(sel, file) ==
    IF ~sel.persistence_file \/ file.state # "json" THEN sel
    ELSE IF ~materials_match(file.materials, sel.materials)
            \/ file.per_video # sel.per_video
         THEN sel
         ELSE [sel EXCEPT !.used_sequences = Range(file.used_sequences),
                          !.used_pairs = Range(file.used_pairs),
                          !.material_count = file.material_count]

\* __init__ before load_state
NewSelector(all_materials, per_video, persistence_file) ==
    [materials |-> all_materials, per_video |-> per_video,
     persistence_file |-> persistence_file,
     used_sequences |-> {}, used_pairs |-> {},
     material_count |-> [m \in Range(all_materials) |-> 0]]

NoSelector == NewSelector(<<>>, 0, FALSE)

NoSelCall == [pc |-> "idle", kind |-> "none", allowed |-> {},
              candidates |-> <<>>, attempt |-> 0, result |-> <<>>,
              exhausted |-> FALSE]

NoSelHist == [returned |-> {}, calls |-> 0, selectors |-> 0,
              saved |-> NoSelector]

SelectorIdle ==
    /\ selector = NoSelector
    /\ selFile = NoSelFile
    /\ selCall = NoSelCall
    /\ selHist = NoSelHist

\* the material lists the selectors are constructed with: one folder listed
\* in two orders, and the folder after a file was removed
MaterialLists == {<<"A", "B", "C">>, <<"C", "A", "B">>, <<"A", "B">>}

\* SequenceDiversitySelector(all_materials, per_video, persistence_file)
construct(all_materials, per_video, persistence_file) ==
    /\ selCall.pc # "trying"
    /\ selHist.selectors < MaxSelectors
    /\ per_video \in 1..Len(all_materials)
    /\ selector' = load_state(
                      NewSelector(all_materials, per_video, persistence_file),
                      selFile)
    /\ selCall' = NoSelCall
    /\ selHist' = [selHist EXCEPT !.returned = {}, !.selectors = @ + 1]
    /\ UNCHANGED selFile
    /\ UNCHANGED nonSelectorVars

\* a selector exists and no call is running on it
Callable ==
    /\ selHist.selectors > 0
    /\ selCall.pc # "trying"

\* get_next_combination up to its loop
get_next_combination ==
    /\ Callable
    /\ selCall' = [NoSelCall EXCEPT
                      !.pc = IF Len(selector.materials) < selector.per_video
                             THEN "raised" ELSE "trying",
                      !.kind = "all",
                      !.allowed = Range(selector.materials),
                      !.candidates = selector.materials]
    /\ UNCHANGED <<selector, selFile, selHist>>
    /\ UNCHANGED nonSelectorVars

candidates_unfiltered(materials, allowed_materials) == materials

\* "candidates = [m for m in self.materials if m in allowed_set]"
candidates_of(materials, allowed_materials) ==
    SelectSeq(materials, LAMBDA m : m \in allowed_materials)

\* get_next_combination_from_allowed up to its loop
get_next_combination_from_allowed(allowed_materials) ==
    /\ Callable
    /\ LET candidates == candidates_of(selector.materials, allowed_materials)
       IN selCall' = [NoSelCall EXCEPT
                         !.pc = IF allowed_materials = {}
                                   \/ Len(candidates) < selector.per_video
                                THEN "raised" ELSE "trying",
                         !.kind = "allowed",
                         !.allowed = allowed_materials,
                         !.candidates = candidates]
    /\ UNCHANGED <<selector, selFile, selHist>>
    /\ UNCHANGED nonSelectorVars

samples_with_repetition(population, k) == [1..k -> Range(population)]

\* what random.sample(population, k) can return; the weighted pool of
\* random.choices can hold any of the candidates in any order
samples(population, k) ==
    {s \in [1..k -> Range(population)] :
        \A i, j \in 1..k : i # j => s[i] # s[j]}

\* _record_sequence before its save_state
record_sequence(sel, sequence) ==
    [sel EXCEPT !.used_sequences = @ \cup {sequence},
                !.used_pairs = @ \cup extract_consecutive_pairs(sequence),
                !.material_count =
                    [m \in DOMAIN @ |->
                        @[m] + Cardinality({i \in 1..Len(sequence) :
                                               sequence[i] = m})]]

\* _record_sequence and "return selected"
RecordAndReturn(selected, io, exhausted) ==
    /\ selector' = record_sequence(selector, selected)
    /\ selFile' = save_state_to(selFile, selector', io)
    /\ selCall' = [selCall EXCEPT !.pc = "returned", !.result = selected,
                                  !.exhausted = exhausted]
    /\ selHist' = [selHist EXCEPT
                      !.returned = @ \cup {selected},
                      !.calls = @ + 1,
                      !.saved = IF selector.persistence_file
                                THEN CASE io = "ok" -> selector'
                                       [] io = "kept" -> @
                                       [] OTHER -> NoSelector
                                ELSE @]

\* one pass of the loop with the random draw selected
select_attempt(selected, io) ==
    /\ selCall.pc = "trying"
    /\ selCall.attempt < max_tries
    /\ selected \in samples(selCall.candidates, selector.per_video)
    /\ IF is_valid_sequence(selector, selected)
       THEN RecordAndReturn(selected, io, FALSE)
       ELSE /\ selCall' = [selCall EXCEPT !.attempt = @ + 1]
            /\ UNCHANGED <<selector, selFile, selHist>>
    /\ UNCHANGED nonSelectorVars

\* behind the loop: the forced combination
select_fallback(selected, io) ==
    /\ selCall.pc = "trying"
    /\ selCall.attempt = max_tries
    /\ selected \in samples(selCall.candidates, selector.per_video)
    /\ RecordAndReturn(selected, io, TRUE)
    /\ UNCHANGED nonSelectorVars

\* reset
reset(io) ==
    /\ selHist.selectors > 0
    /\ selCall.pc # "trying"
    /\ selector.used_sequences # {}
    /\ selector' = [selector EXCEPT
                       !.used_sequences = {}, !.used_pairs = {},
                       !.material_count = [m \in DOMAIN @ |-> 0]]
    /\ selFile' = save_state_to(selFile, selector', io)
    /\ selHist' = [selHist EXCEPT
                      !.returned = {},
                      !.saved = IF selector.persistence_file
                                THEN CASE io = "ok" -> selector'
                                       [] io = "kept" -> @
                                       [] OTHER -> NoSelector
                                ELSE @]
    /\ UNCHANGED selCall
    /\ UNCHANGED nonSelectorVars

Tuples == UNION {[1..k -> Materials] : k \in 1..Cardinality(Materials)}
WriteResults == {"ok", "kept", "torn"}

SelectorNext ==
    \/ \E ms \in MaterialLists, k \in 2..Cardinality(Materials), pf \in BOOLEAN :
          construct(ms, k, pf)
    \/ selHist.calls < MaxSelCalls /\ get_next_combination
    \/ \E allowed \in SUBSET (Materials \cup Strangers) :
          selHist.calls < MaxSelCalls /\ get_next_combination_from_allowed(allowed)
    \/ \E s \in Tuples, io \in WriteResults : select_attempt(s, io)
    \/ \E s \in Tuples, io \in WriteResults : select_fallback(s, io)
    \/ \E io \in WriteResults : reset(io)

\* get_next_combination called ScenarioCalls times on a new selector with
\* materials = [A, B, C, D, E] and per_video = 3.  The runs followed are those
\* in which the random draws fall on the first MaxDrawn materials.
ScenarioMaterials == <<"A", "B", "C", "D", "E">>

TenCallInit ==
    /\ selector = NewSelector(ScenarioMaterials, 3, FALSE)
    /\ selFile = NoSelFile
    /\ selCall = NoSelCall
    /\ selHist = [NoSelHist EXCEPT !.selectors = 1]

ScenarioDraws == samples(SubSeq(ScenarioMaterials, 1, MaxDrawn), 3)

TenCallNext ==
    \/ selHist.calls < ScenarioCalls /\ get_next_combination
    \/ \E s \in ScenarioDraws : select_attempt(s, "ok")
    \/ \E s \in ScenarioDraws : select_fallback(s, "ok")

(***************************************************************************)
(* Output file naming (generate_unique_filename of core/video_processor.py *)
(* and its copies in ffmpeg_processor.py and task_manager.py), called by   *)
(* the runners of jobs that share one output folder and one base name.     *)
(*   outDir     the files of the output folder: <<"n", second, counter>>   *)
(*              is {base}_{timestamp}_{counter:03d}.mp4 and                *)
(*              <<"us", second, microsecond>> is the fallback name         *)
(*   nameClock  datetime.now(): second and microsecond                     *)
(*   namer[w]   runner w: pc "idle", "loop" (in the while loop), "got"     *)
(*              (holds the returned path, the file is not written yet)     *)
(***************************************************************************)
Namers == 1..MaxNamers
NoPath == <<"none", 0, 0>>

NamerInit ==
    /\ outDir = {}
    /\ nameClock = [second |-> 0, microsecond |-> 0]
    /\ namer = [w \in Namers |-> [pc |-> "idle", timestamp |-> 0, counter |-> 0,
                                  path |-> NoPath, existed |-> FALSE]]

\* "timestamp = datetime.now().strftime(...)" and "counter = 1"
generate_unique_filename_begin(w) ==
    /\ namer[w].pc = "idle"
    /\ namer' = [namer EXCEPT ![w] = [pc |-> "loop",
                                      timestamp |-> nameClock.second,
                                      counter |-> 1, path |-> NoPath,
                                      existed |-> FALSE]]
    /\ UNCHANGED <<outDir, nameClock>>
    /\ UNCHANGED nonNamerVars

\* one pass of the while loop: the path is returned if no such file exists;
\* behind counter CounterLimit the name with the microseconds is returned
\* unseen
generate_unique_filename_try(w) ==
    /\ namer[w].pc = "loop"
    /\ LET full_path == <<"n", namer[w].timestamp, namer[w].counter>>
           fallback == <<"us", nameClock.second, nameClock.microsecond>>
       IN namer' = [namer EXCEPT ![w] =
              IF full_path \notin outDir
              THEN [@ EXCEPT !.pc = "got", !.path = full_path,
                             !.existed = FALSE]
              ELSE IF @.counter + 1 > CounterLimit
                   THEN [@ EXCEPT !.pc = "got", !.counter = @ + 1,
                                  !.path = fallback,
                                  !.existed = fallback \in outDir]
                   ELSE [@ EXCEPT !.counter = @ + 1]]
    /\ UNCHANGED <<outDir, nameClock>>
    /\ UNCHANGED nonNamerVars

\* the runner writes its output to the path it was given
write_output(w) ==
    /\ namer[w].pc = "got"
    /\ outDir' = outDir \cup {namer[w].path}
    /\ namer' = [namer EXCEPT ![w].pc = "idle"]
    /\ UNCHANGED nameClock
    /\ UNCHANGED nonNamerVars

\* time passes: the next microsecond or the next second
clock_tick ==
    /\ \/ /\ nameClock.microsecond < MaxMicros
          /\ nameClock' = [nameClock EXCEPT !.microsecond = @ + 1]
       \/ /\ nameClock.second < MaxSeconds
          /\ nameClock' = [second |-> nameClock.second + 1, microsecond |-> 0]
    /\ UNCHANGED <<outDir, namer>>
    /\ UNCHANGED nonNamerVars

NamerNext ==
    \/ \E w \in Namers : generate_unique_filename_begin(w)
    \/ \E w \in Namers : generate_unique_filename_try(w)
    \/ \E w \in Namers : write_output(w)
    \/ clock_tick

(***************************************************************************)
(* Pipeline state machine (core/pipeline_states.py, class                  *)
(* StateTransitionManager), driven by the transition_to calls of the       *)
(* PipelineController.  A state is the value of its PipelineState member.  *)
(***************************************************************************)
PipelineState == {"idle", "configuring", "splitting", "split_completed",
                  "merging", "completed", "failed", "cancelled", "paused"}

VALID_TRANSITIONS ==
    [st \in PipelineState |->
        CASE st = "idle" -> {"configuring", "splitting"}
          [] st = "configuring" -> {"splitting", "cancelled", "idle"}
          [] st = "splitting" -> {"split_completed", "failed", "cancelled", "paused"}
          [] st = "split_completed" -> {"merging", "cancelled", "idle"}
          [] st = "merging" -> {"completed", "failed", "cancelled", "paused"}
          [] st = "paused" -> {"splitting", "merging", "cancelled", "idle"}
          [] st = "completed" -> {"idle"}
          [] st = "failed" -> {"idle", "splitting", "merging"}
          [] st = "cancelled" -> {"idle"}]

NoTransition == [target |-> "none", result |-> FALSE]

PipelineInit ==
    /\ current_state = "idle"
    /\ state_history = <<"idle">>
    /\ transition = NoTransition

can_transition_to(target_state) == target_state \in VALID_TRANSITIONS[current_state]

transition_to(target_state) ==
    /\ Len(state_history) < MaxHistory
    /\ IF ~can_transition_to(target_state)
       THEN /\ transition' = [target |-> target_state, result |-> FALSE]
            /\ UNCHANGED <<current_state, state_history>>
       ELSE /\ current_state' = target_state
            /\ state_history' = Append(state_history, target_state)
            /\ transition' = [target |-> target_state, result |-> TRUE]
    /\ UNCHANGED nonPipelineVars

\* StateTransitionManager.reset
state_manager_reset ==
    /\ state_history # <<"idle">>
    /\ current_state' = "idle"
    /\ state_history' = <<"idle">>
    /\ transition' = NoTransition
    /\ UNCHANGED nonPipelineVars

PipelineNext ==
    \/ \E target_state \in PipelineState : transition_to(target_state)
    \/ state_manager_reset

(***************************************************************************)
(* The locks of the Job Scheduler (core/batch_processor.py).  The threads  *)
(* that call the public methods, the timer and the queued runner callbacks *)
(* run step by step; lockOwner.sched is BatchProcessor._lock and           *)
(* lockOwner.ctl is ProcessController._lock of a runner (0: free).         *)
(*   thread[t].op   the method the thread is in                            *)
(*   thread[t].pc   its position                                           *)
(*   thread[t].idx, total, size   the loop of get_overall_progress         *)
(*   thread[t].ret  what the method returned or raised                     *)
(* job.progress is kept in percent.                                        *)
(***************************************************************************)
Threads == 1..MaxThreads
ProcessorClasses == {"VideoProcessor", "FFmpegGPUProcessor"}

\* the order in which self.jobs.values() yields the jobs
FolderOrder == <<"f1", "f2">>

IdleThread == [op |-> "none", pc |-> "idle", f |-> "", p |-> 0, idx |-> 0,
               total |-> 0, size |-> 0, ret |-> "none", calls |-> 0]

LockIdle ==
    /\ lockOwner = [sched |-> 0, ctl |-> 0]
    /\ thread = [t \in Threads |-> IdleThread]
    /\ progress = [o \in Objs |-> 0]
    /\ processor_class = [o \in Objs |-> "VideoProcessor"]

\* the variables of the scheduler that a step on the job records leaves alone
jobFrame == <<pending_jobs, running, paused, cancelled, max_concurrent_jobs,
              executorQ, disp, adders, finishQ, completedEmits,
              pendingAtCancel, calls, batchJobs>>

\* the methods that start with "with self._lock:"
LockedOps == {"on_job_progress", "get_statistics", "pause_job", "resume_job",
              "remove_job"}

\* a thread enters a method: the timer slot _update_overall_progress, a
\* queued runner callback or a public method
invoke(t, op, f, p) ==
    /\ thread[t].pc = "idle"
    /\ thread[t].calls < MaxThreadCalls
    /\ thread' = [thread EXCEPT ![t] =
                     [IdleThread EXCEPT
                         !.op = op, !.f = f, !.p = p,
                         !.calls = thread[t].calls + 1,
                         !.pc = IF op \in LockedOps THEN "acquire"
                                ELSE IF op = "update_overall_progress"
                                THEN "gop_begin" ELSE "flag"]]
    /\ UNCHANGED <<lockOwner, progress, processor_class>>
    /\ UNCHANGED <<schedulerVars, nonLockVars>>

\* "with self._lock:" is entered
lock_acquire(t) ==
    /\ thread[t].pc = "acquire"
    /\ lockOwner.sched = 0
    /\ lockOwner' = [lockOwner EXCEPT !.sched = t]
    /\ thread' = [thread EXCEPT ![t].pc =
                     CASE thread[t].op = "on_job_progress" -> "write"
                       [] thread[t].op = "get_statistics" -> "gop_begin"
                       [] thread[t].op = "remove_job" -> "check"
                       [] OTHER -> "body"]
    /\ UNCHANGED <<progress, processor_class>>
    /\ UNCHANGED <<schedulerVars, nonLockVars>>

\* "with self._lock:" is left, by the end of the block or by an exception
lock_release(t) ==
    /\ thread[t].pc = "release"
    /\ lockOwner' = [lockOwner EXCEPT !.sched = 0]
    /\ thread' = [thread EXCEPT ![t].pc = "idle"]
    /\ UNCHANGED <<progress, processor_class>>
    /\ UNCHANGED <<schedulerVars, nonLockVars>>

\* where get_overall_progress returns to
AfterRead(t) == IF thread[t].op = "update_overall_progress" THEN "idle" ELSE "release"

\* "if not self.jobs: return 0.0" and the start of the sum
get_overall_progress_begin(t) ==
    /\ thread[t].pc = "gop_begin"
    /\ thread' = [thread EXCEPT ![t] =
                     IF JobValues(jobs) = {}
                     THEN [@ EXCEPT !.ret = "zero", !.pc = AfterRead(t)]
                     ELSE [@ EXCEPT !.idx = 1, !.total = 0,
                                    !.size = Cardinality(JobValues(jobs)),
                                    !.pc = "gop_next"]]
    /\ UNCHANGED <<lockOwner, progress, processor_class>>
    /\ UNCHANGED <<schedulerVars, nonLockVars>>

\* one step of "sum(job.progress for job in self.jobs.values())"; a dict
\* that changed its size since the loop began raises RuntimeError
get_overall_progress_next(t) ==
    /\ thread[t].pc = "gop_next"
    /\ thread' = [thread EXCEPT ![t] =
                     IF Cardinality(JobValues(jobs)) # thread[t].size
                     THEN [@ EXCEPT !.ret = "RuntimeError", !.pc = AfterRead(t)]
                     ELSE IF thread[t].idx > Len(FolderOrder)
                     THEN [@ EXCEPT !.pc = "gop_end"]
                     ELSE LET f == FolderOrder[thread[t].idx]
                          IN [@ EXCEPT !.idx = @ + 1,
                                       !.total = IF jobs[f] # 0
                                                 THEN @ + progress[jobs[f]]
                                                 ELSE @]]
    /\ UNCHANGED <<lockOwner, progress, processor_class>>
    /\ UNCHANGED <<schedulerVars, nonLockVars>>

\* "return total_progress / len(self.jobs)"
get_overall_progress_end(t) ==
    /\ thread[t].pc = "gop_end"
    /\ thread' = [thread EXCEPT ![t] =
                     IF JobValues(jobs) = {}
                     THEN [@ EXCEPT !.ret = "ZeroDivisionError", !.pc = AfterRead(t)]
                     ELSE [@ EXCEPT !.ret = "mean",
                                    !.size = Cardinality(JobValues(jobs)),
                                    !.pc = AfterRead(t)]]
    /\ UNCHANGED <<lockOwner, progress, processor_class>>
    /\ UNCHANGED <<schedulerVars, nonLockVars>>

\* _on_job_progress: "job = self.jobs.get(folder_path); if job:
\* job.progress = new_progress", then _update_overall_progress_immediate
on_job_progress_write(t) ==
    /\ thread[t].pc = "write"
    /\ LET f == thread[t].f
       IN IF jobs[f] # 0
          THEN /\ progress' = [progress EXCEPT ![jobs[f]] = thread[t].p]
               /\ thread' = [thread EXCEPT ![t].pc = "gop_begin"]
          ELSE /\ UNCHANGED progress
               /\ thread' = [thread EXCEPT ![t].pc = "release"]
    /\ UNCHANGED <<lockOwner, processor_class>>
    /\ UNCHANGED <<schedulerVars, nonLockVars>>

\* the body of pause_job and of resume_job
pause_resume_job_body(t) ==
    /\ thread[t].pc = "body"
    /\ LET f == thread[t].f
           from == IF thread[t].op = "pause_job" THEN "processing" ELSE "paused"
           to == IF thread[t].op = "pause_job" THEN "paused" ELSE "processing"
       IN IF jobs[f] # 0 /\ job[jobs[f]].status = from
          THEN /\ job' = [job EXCEPT ![jobs[f]] =
                            [@ EXCEPT !.paused = (to = "paused"), !.status = to]]
               /\ thread' = [thread EXCEPT ![t].ret = "true", ![t].pc = "release"]
          ELSE /\ UNCHANGED job
               /\ thread' = [thread EXCEPT ![t].ret = "false", ![t].pc = "release"]
    /\ UNCHANGED <<jobs, removedObjs, jobFrame>>
    /\ UNCHANGED <<lockOwner, progress, processor_class>>
    /\ UNCHANGED nonLockVars

\* remove_job up to "_cancel_job(job)" and, inside it, up to
\* "job.processor.stop()"
remove_job_check(t) ==
    /\ thread[t].pc = "check"
    /\ LET f == thread[t].f
       IN thread' = [thread EXCEPT ![t] =
                        IF jobs[f] = 0
                        THEN [@ EXCEPT !.ret = "false", !.pc = "release"]
                        ELSE IF job[jobs[f]].status \notin {"processing", "paused"}
                        THEN [@ EXCEPT !.pc = "del"]
                        ELSE IF HasProcessor(job[jobs[f]]) /\ IsRunning(job[jobs[f]])
                        THEN [@ EXCEPT !.pc = "stop"]
                        ELSE [@ EXCEPT !.pc = "status"]]
    /\ UNCHANGED <<lockOwner, progress, processor_class>>
    /\ UNCHANGED <<schedulerVars, nonLockVars>>

\* stop() of the runner: "self.running = False; self._cancel_requested = True"
stop_begin(t) ==
    /\ thread[t].pc = "stop"
    /\ LET o == jobs[thread[t].f]
       IN /\ job' = [job EXCEPT ![o].stop = TRUE]
          /\ thread' = [thread EXCEPT ![t].pc =
                           IF processor_class[o] = "FFmpegGPUProcessor"
                           THEN "cancel_all" ELSE "wait"]
    /\ UNCHANGED <<jobs, removedObjs, jobFrame>>
    /\ UNCHANGED <<lockOwner, progress, processor_class>>
    /\ UNCHANGED nonLockVars

\* FFmpegGPUProcessor.stop: "self.process_controller.cancel_all(timeout=2.0)"
\* enters "with self._lock:" of the ProcessController
stop_cancel_all_enter(t) ==
    /\ thread[t].pc = "cancel_all"
    /\ lockOwner.ctl = 0
    /\ lockOwner' = [lockOwner EXCEPT !.ctl = t]
    /\ thread' = [thread EXCEPT ![t].pc = "in_cancel_all"]
    /\ UNCHANGED <<progress, processor_class>>
    /\ UNCHANGED <<schedulerVars, nonLockVars>>

stop_cancel_all_exit(t) ==
    /\ thread[t].pc = "in_cancel_all"
    /\ lockOwner' = [lockOwner EXCEPT !.ctl = 0]
    /\ thread' = [thread EXCEPT ![t].pc = "wait"]
    /\ UNCHANGED <<progress, processor_class>>
    /\ UNCHANGED <<schedulerVars, nonLockVars>>

\* "self.wait()" returns when the runner thread has ended
stop_wait(t) ==
    /\ thread[t].pc = "wait"
    /\ job[jobs[thread[t].f]].rpc = "finished"
    /\ thread' = [thread EXCEPT ![t].pc = "status"]
    /\ UNCHANGED <<lockOwner, progress, processor_class>>
    /\ UNCHANGED <<schedulerVars, nonLockVars>>

\* _cancel_job: "job.status = 'cancelled'"
cancel_job_status(t) ==
    /\ thread[t].pc = "status"
    /\ job' = [job EXCEPT ![jobs[thread[t].f]].status = "cancelled"]
    /\ thread' = [thread EXCEPT ![t].pc = "del"]
    /\ UNCHANGED <<jobs, removedObjs, jobFrame>>
    /\ UNCHANGED <<lockOwner, progress, processor_class>>
    /\ UNCHANGED nonLockVars

\* "del self.jobs[folder_path]"
remove_job_del(t) ==
    /\ thread[t].pc = "del"
    /\ removedObjs' = removedObjs \cup {jobs[thread[t].f]}
    /\ jobs' = [jobs EXCEPT ![thread[t].f] = 0]
    /\ thread' = [thread EXCEPT ![t].ret = "true", ![t].pc = "release"]
    /\ UNCHANGED <<job, jobFrame>>
    /\ UNCHANGED <<lockOwner, progress, processor_class>>
    /\ UNCHANGED nonLockVars

\* pause_batch / resume_batch: the "with self._lock:" block, which tests
\* and sets the flags
batch_flag(t) ==
    /\ thread[t].pc = "flag"
    /\ lockOwner.sched = 0
    /\ LET pausing == thread[t].op = "pause_batch"
           ok == IF pausing THEN pause_batch_ok(running, paused)
                 ELSE resume_batch_ok(running, paused)
       IN IF ok
          THEN /\ paused' = pausing
               /\ thread' = [thread EXCEPT ![t].pc = "loop"]
          ELSE /\ UNCHANGED paused
               /\ thread' = [thread EXCEPT ![t].ret = "false", ![t].pc = "idle"]
    /\ UNCHANGED <<jobs, job, pending_jobs, running, cancelled,
                   max_concurrent_jobs, executorQ, disp, adders, finishQ,
                   completedEmits, pendingAtCancel, removedObjs, calls, batchJobs>>
    /\ UNCHANGED <<lockOwner, progress, processor_class>>
    /\ UNCHANGED nonLockVars

\* pause_batch / resume_batch: "for job in self.jobs.values(): ...", behind
\* the "with" block
batch_loop(t) ==
    /\ thread[t].pc = "loop"
    /\ job' = IF thread[t].op = "pause_batch" THEN pause_batch_jobs(jobs, job)
              ELSE resume_batch_jobs(jobs, job)
    /\ thread' = [thread EXCEPT ![t].ret = "true", ![t].pc = "idle"]
    /\ UNCHANGED <<jobs, removedObjs, jobFrame>>
    /\ UNCHANGED <<lockOwner, progress, processor_class>>
    /\ UNCHANGED nonLockVars

\* a batch of two merge jobs after start_batch: the first is submitted to
\* the pool, the second waits in the queue
LockInit ==
    /\ jobs = [f \in Folders |-> IF f = "f1" THEN 1 ELSE 2]
    /\ job = [o \in Objs |-> IF o = 1 THEN BatchJobInfo("f1", "merge")
                             ELSE IF o = 2 THEN BatchJobInfo("f2", "merge")
                             ELSE NoJob]
    /\ pending_jobs = <<2>>
    /\ running = TRUE
    /\ paused = FALSE
    /\ cancelled = FALSE
    /\ max_concurrent_jobs = 1
    /\ executorQ = <<1>>
    /\ disp = [d \in Runs |-> IF d = 1 THEN [pc |-> "top", held |-> 0]
                              ELSE [pc |-> "idle", held |-> 0]]
    /\ adders = [k \in Folders \X JobTypes |-> 0]
    /\ finishQ = <<>>
    /\ completedEmits = 0
    /\ pendingAtCancel = {}
    /\ removedObjs = {}
    /\ calls = 3
    /\ batchJobs = {1, 2}
    /\ lockOwner = [sched |-> 0, ctl |-> 0]
    /\ thread = [t \in Threads |-> IdleThread]
    /\ progress = [o \in Objs |-> 0]
    /\ processor_class \in [Objs -> ProcessorClasses]

LockNext ==
    \/ \E t \in Threads : invoke(t, "update_overall_progress", "", 0)
    \/ \E t \in Threads : invoke(t, "get_statistics", "", 0)
    \/ \E t \in Threads, f \in Folders, p \in {50, 100} :
          invoke(t, "on_job_progress", f, p)
    \/ \E t \in Threads, f \in Folders,
          op \in {"pause_job", "resume_job", "remove_job"} : invoke(t, op, f, 0)
    \/ \E t \in Threads, op \in {"pause_batch", "resume_batch"} :
          invoke(t, op, "", 0)
    \/ \E t \in Threads : lock_acquire(t)
    \/ \E t \in Threads : lock_release(t)
    \/ \E t \in Threads : get_overall_progress_begin(t)
    \/ \E t \in Threads : get_overall_progress_next(t)
    \/ \E t \in Threads : get_overall_progress_end(t)
    \/ \E t \in Threads : on_job_progress_write(t)
    \/ \E t \in Threads : pause_resume_job_body(t)
    \/ \E t \in Threads : remove_job_check(t)
    \/ \E t \in Threads : stop_begin(t)
    \/ \E t \in Threads : stop_cancel_all_enter(t)
    \/ \E t \in Threads : stop_cancel_all_exit(t)
    \/ \E t \in Threads : stop_wait(t)
    \/ \E t \in Threads : cancel_job_status(t)
    \/ \E t \in Threads : remove_job_del(t)
    \/ \E t \in Threads : batch_flag(t)
    \/ \E t \in Threads : batch_loop(t)
    \/ process_job_begin
    \/ \E o \in Objs : process_job_start(o)
    \/ \E o \in Objs, m \in Messages : runner_finish(o, m)

\* the Resource Reclaimer, the Diversity Selector, the runners' naming, the
\* pipeline state machine and the threads of the scheduler at rest
ToolsIdle == ReclaimerInit /\ SelectorIdle /\ NamerInit /\ PipelineInit /\ LockIdle

(***************************************************************************)
(* The specifications.                                                     *)
(***************************************************************************)
Next ==
    \/ \E f \in Folders, t \in JobTypes : add_job_check(f, t)
    \/ \E f \in Folders, t \in JobTypes : add_job_insert(f, t)
    \/ start_batch
    \/ pause_batch
    \/ resume_batch
    \/ cancel_batch
    \/ \E f \in Folders : remove_job(f)
    \/ \E f \in Folders : pause_job(f)
    \/ \E f \in Folders : resume_job(f)
    \/ \E d \in Runs : process_jobs_top(d)
    \/ \E d \in Runs : process_jobs_get(d)
    \/ \E d \in Runs : process_jobs_submit(d)
    \/ \E d \in Runs : process_jobs_exit(d)
    \/ process_job_begin
    \/ \E o \in Objs : process_job_start(o)
    \/ \E o \in Objs : process_job_raise(o)
    \/ \E o \in Objs : process_job_return(o)
    \/ \E o \in Objs : runner_item_error(o)
    \/ \E o \in Objs, m \in Messages : runner_finish(o, m)
    \/ on_job_finished

Init == SchedulerInit /\ TaskStoreIdle /\ ClassifierIdle /\ ControllerInit /\ ToolsIdle

Spec == Init /\ [][Next]_vars

TaskInit == SchedulerIdle /\ TaskStoreInit /\ ClassifierIdle /\ ControllerInit /\ ToolsIdle

TaskNext ==
    \/ \E id \in TaskIds : execute_task_begin(id)
    \/ execute_task_succeed
    \/ execute_task_false
    \/ \E e \in RaisedErrors : execute_task_raise(e)
    \/ \E id \in TaskIds : retry_task(id)

TaskSpec == TaskInit /\ [][TaskNext]_vars

\* the Task Store with its job file
PersistInit == SchedulerIdle /\ create_batch_job /\ ClassifierIdle /\ ControllerInit /\ ToolsIdle

\* the error processor_func raises while the job file is watched
PersistErrors == {ErrorText.no_space}

PersistNext ==
    \/ \E id \in TaskIds : execute_task_begin(id)
    \/ execute_task_succeed
    \/ execute_task_false
    \/ \E e \in PersistErrors : execute_task_raise(e)
    \/ \E id \in TaskIds : retry_task(id)
    \/ save_state
    \/ load_job

PersistSpec == PersistInit /\ [][PersistNext]_vars

(***************************************************************************)
(* RobustVideoProcessor.run over a new job in which the processor of task  *)
(* 2 raises "No such file: x.mp4" and every other processor succeeds.  The *)
(* loop takes the tasks in their order and saves the state after each.     *)
(***************************************************************************)
RunTaskIds == 1..ScenarioTasks

RunInit ==
    /\ SchedulerIdle
    /\ ClassifierIdle
    /\ ControllerInit /\ ToolsIdle
    /\ tasks \in [RunTaskIds -> {TaskInfo(m) : m \in 0..MaxCarriedRetries}]
    /\ executing = 0
    /\ timers = [t \in RunTaskIds |-> 0]
    /\ current_job = NewJobInfo
    /\ jobFile = [exists |-> TRUE, job_status |-> JsonString(current_job.status),
                  tasks |-> save_tasks(tasks)]
    /\ lastOp = "create"
    /\ storeCalls = 0

\* the tasks of the snapshot the loop has not reached yet
RunRemaining == {t \in RunTaskIds : tasks[t].status = "pending"}

RunSaved == jobFile.tasks = save_tasks(tasks)

run_execute(id) ==
    /\ RunSaved
    /\ id \in RunRemaining
    /\ \A t \in RunRemaining : id <= t
    /\ execute_task_begin(id)

run_task_ok ==
    /\ executing # 2
    /\ execute_task_succeed

run_task_missing_file ==
    /\ executing = 2
    /\ execute_task_raise(ErrorText.no_such_file)

\* "self.task_manager.save_state()" of the loop
run_save ==
    /\ executing = 0
    /\ ~RunSaved
    /\ write_job_file
    /\ UNCHANGED storeCalls

RunDone == executing = 0 /\ RunRemaining = {} /\ RunSaved

RunNext ==
    \/ \E id \in RunTaskIds : run_execute(id)
    \/ run_task_ok
    \/ run_task_missing_file
    \/ run_save

RunSpec == RunInit /\ [][RunNext]_vars

\* the Process Supervisor
ControllerSpecInit == SchedulerIdle /\ TaskStoreIdle /\ ClassifierIdle /\ ControllerInit /\ ToolsIdle

ControllerSpec == ControllerSpecInit /\ [][ControllerNext]_vars

\* the Resource Reclaimer
ReclaimerSpecInit == SchedulerIdle /\ TaskStoreIdle /\ ClassifierIdle /\ ControllerInit /\ ToolsIdle

ReclaimerSpec == ReclaimerSpecInit /\ [][ReclaimerNext]_vars

\* cleanup_all(force=True) on a reclaimer that holds temp files only, each
\* registered file in one of the states a file can be in
ForcedCleanupInit ==
    /\ SchedulerIdle /\ TaskStoreIdle /\ ClassifierIdle /\ ControllerInit
    /\ SelectorIdle /\ NamerInit /\ PipelineInit /\ LockIdle
    /\ \E files \in ListsOf(RmFiles), fates \in [RmFiles -> FileFates] :
          /\ reclaimer = [active_clips |-> <<>>, temp_files |-> files,
                          processes |-> <<>>, audio_readers |-> <<>>,
                          moviepy_temp_files |-> <<>>]
          /\ rmEnv = [disk |-> [f \in RmFiles |->
                                  IF f \in Range(files) THEN fates[f]
                                  ELSE "absent"],
                      proc |-> [p \in RmProcs |-> "unborn"],
                      delayed |-> [f \in RmFiles |-> <<>>]]
    /\ rmCall = NoCleanup

ForcedCleanupNext ==
    \/ cleanup_all_begin(TRUE)
    \/ delete_attempt
    \/ cleanup_phase_end
    \/ cleanup_all_return
    \/ \E f \in RmFiles : delayed_cleanup(f)
    \/ rm_tick

\* a running cleanup_all call goes on, and the delayed_cleanup threads run
ReclaimerFairness ==
    /\ WF_vars(delete_attempt)
    /\ WF_vars(cleanup_phase_end)
    /\ WF_vars(cleanup_all_return)
    /\ \A f \in RmFiles : WF_vars(delayed_cleanup(f))
    /\ WF_vars(rm_tick)

ForcedCleanupSpec ==
    ForcedCleanupInit /\ [][ForcedCleanupNext]_vars /\ ReclaimerFairness

\* the Diversity Selector
SelectorSpecInit == SchedulerIdle /\ TaskStoreIdle /\ ClassifierIdle /\ ControllerInit /\ ToolsIdle

SelectorSpec == SelectorSpecInit /\ [][SelectorNext]_vars

TenCallSpecInit ==
    /\ SchedulerIdle /\ TaskStoreIdle /\ ClassifierIdle /\ ControllerInit
    /\ ReclaimerInit /\ TenCallInit /\ NamerInit /\ PipelineInit /\ LockIdle

TenCallSpec == TenCallSpecInit /\ [][TenCallNext]_vars

\* the naming of the output files
NamerSpecInit == SchedulerIdle /\ TaskStoreIdle /\ ClassifierIdle /\ ControllerInit /\ ToolsIdle

NamerSpec == NamerSpecInit /\ [][NamerNext]_vars

\* the pipeline state machine under every sequence of transition_to calls
PipelineSpecInit == SchedulerIdle /\ TaskStoreIdle /\ ClassifierIdle /\ ControllerInit /\ ToolsIdle

PipelineSpec == PipelineSpecInit /\ [][PipelineNext]_vars

\* the locks of the scheduler while a batch runs
LockSpecInit ==
    /\ LockInit /\ TaskStoreIdle /\ ClassifierIdle /\ ControllerInit
    /\ ReclaimerInit /\ SelectorIdle /\ NamerInit /\ PipelineInit

LockSpec == LockSpecInit /\ [][LockNext]_vars

ClassifierQueryInit ==
    SchedulerIdle /\ TaskStoreIdle /\ ClassifierInit /\ ControllerInit /\ ToolsIdle

ClassifierNext == call_should_retry

ClassifierSpec == ClassifierQueryInit /\ [][ClassifierNext]_vars


(***************************************************************************)
(* Fairness of LiveSpec: every thread that can take a step eventually      *)
(* takes it, every started runner eventually finishes, and queued          *)
(* notifications are delivered.  Calls of the public methods are never     *)
(* forced.                                                                 *)
(***************************************************************************)
Fairness ==
    /\ \A f \in Folders, t \in JobTypes : WF_vars(add_job_insert(f, t))
    /\ \A d \in Runs : WF_vars(process_jobs_top(d))
    /\ \A d \in Runs : WF_vars(process_jobs_get(d))
    /\ \A d \in Runs : WF_vars(process_jobs_submit(d))
    /\ \A d \in Runs : WF_vars(process_jobs_exit(d))
    /\ WF_vars(process_job_begin)
    /\ \A o \in Objs : WF_vars(process_job_start(o) \/ process_job_raise(o))
    /\ \A o \in Objs : WF_vars(process_job_return(o))
    /\ \A o \in Objs : WF_vars(\E m \in Messages : runner_finish(o, m))
    /\ WF_vars(on_job_finished)

LiveSpec == Spec /\ Fairness

\* the Retry Executor on tasks of which every execution fails: the caller
\* keeps executing the resumable tasks, every execution ends in a false
\* result or an exception, and every retry_task thread wakes up
FailingNext ==
    \/ \E id \in TaskIds : execute_task_begin(id)
    \/ execute_task_false
    \/ \E e \in RaisedErrors : execute_task_raise(e)
    \/ \E id \in TaskIds : retry_task(id)

FailingFairness ==
    /\ \A id \in TaskIds : SF_vars(execute_task_begin(id))
    /\ WF_vars(execute_task_false \/ \E e \in RaisedErrors : execute_task_raise(e))
    /\ \A id \in TaskIds : WF_vars(retry_task(id))

FailingSpec == TaskInit /\ [][FailingNext]_vars /\ FailingFairness

(***************************************************************************)
(* Properties of the Job Scheduler.                                        *)
(***************************************************************************)
LiveRunners == {o \in Objs : job[o].rpc = "running"}

\* C1: in every run of a batch the BatchCompleted notification is emitted
\* exactly once: never twice, and once when the run has ended by completion.
C1_BatchCompletedExactlyOnce ==
    /\ completedEmits <= 1
    /\ (Started # {} /\ ~running /\ ~cancelled) => completedEmits = 1

\* C2: the number of runners that were started and have not finished is at
\* most max_concurrent_jobs.
C2_RunnersBounded == Cardinality(LiveRunners) <= max_concurrent_jobs

C2_PoolFullWitness ==
    /\ Cardinality(LiveRunners) = max_concurrent_jobs
    /\ executorQ # <<>>

\* C3: while the batch is paused no job changes from pending to processing
\* and no runner is started for a pending job.
C3_NoStartWhilePaused ==
    [][(running /\ paused) =>
          \A o \in Objs :
             job[o].status = "pending" =>
                 /\ job'[o].status # "processing"
                 /\ job'[o].rpc = "none"]_vars

\* C4: a job that was pending when cancel_batch ran never enters processing
\* and never gets a runner, and the batch stays not running until the next
\* start_batch.
C4_CancelledPendingNeverDispatched ==
    [][/\ \A o \in pendingAtCancel' :
             /\ job'[o].status # "processing"
             /\ job'[o].rpc = "none"
       /\ (~running /\ running') => Started' # Started]_vars

\* C5: pause_batch followed immediately by resume_batch restores the paused
\* flag of the scheduler and the status and paused flag of every job.
C5_PauseResumeRoundTrip ==
    pause_batch_ok(running, paused) =>
        LET jp == pause_batch_jobs(jobs, job)
            jr == resume_batch_jobs(jobs, jp)
        IN /\ resume_batch_ok(running, TRUE)
           /\ \A o \in Objs : /\ jr[o].status = job[o].status
                              /\ jr[o].paused = job[o].paused

\* C6: the pending queue never holds two jobs with the same folder_path
\* (objects deleted by remove_job aside) and the job map never loses an
\* entry to a second add of the same folder_path.
C6_NoDuplicateSubmit ==
    /\ \A i, k \in 1..Len(pending_jobs) :
          (i # k /\ pending_jobs[i] \notin removedObjs
                 /\ pending_jobs[k] \notin removedObjs)
             => job[pending_jobs[i]].folder # job[pending_jobs[k]].folder
    /\ \A o \in Created :
          o \in JobValues(jobs) \/ o \in removedObjs

\* C7: every job that was in the job map when start_batch succeeded
\* eventually reaches completed, failed or cancelled (or is removed),
\* provided the batch is not left paused forever.
C7_EveryJobTerminates ==
    <>[](~paused) =>
        \A o \in Objs :
            (o \in batchJobs) ~>
                (job[o].status \in TerminalStatuses \/ o \notin JobValues(jobs))

\* C8: once the status of a job is completed, failed or cancelled, no step
\* changes it.
C8_TerminalIsFinal ==
    [][\A o \in Objs :
          job[o].status \in TerminalStatuses => job'[o].status = job[o].status]_vars

\* the step in which the BatchCompleted notification is emitted
BatchCompletedEmitted == completedEmits' = completedEmits + 1

\* C34: BatchCompleted is emitted only when the pending queue is empty, no
\* job of the job map is pending, processing or paused, and no runner of a
\* job of the batch is still executing.
C34_CompletedOnlyWhenQuiet ==
    [][BatchCompletedEmitted =>
          /\ pending_jobs' = <<>>
          /\ active_jobs(jobs', job') = {}
          /\ \A o \in batchJobs : job'[o].rpc # "running"]_vars

\* C35: a job removed with remove_job is destroyed: it is never submitted to
\* the worker pool, no worker begins it and no runner is started for it,
\* also when it was still pending at the removal.
C35_RemovedJobNeverDispatched ==
    [][\A o \in removedObjs :
          /\ o \in Range(executorQ') => o \in Range(executorQ)
          /\ job'[o].wpc = "began" => job[o].wpc = "began"
          /\ job'[o].rpc = "running" => job[o].rpc = "running"]_vars

\* C36: a job becomes completed only on the finish report that says every
\* output was produced; a report of an error, of a shortage of input files
\* or of a cancellation leaves the job failed or cancelled.
C36_CompletedOnlyWhenAllDone ==
    [][(on_job_finished /\ jobs[Head(finishQ)[1]] # 0) =>
          LET o == jobs[Head(finishQ)[1]]
              m == Head(finishQ)[2]
          IN /\ job'[o].status = "completed" => m = "all_done"
             /\ m \in {"error", "shortage", "cancelled"}
                  => job'[o].status \in {"failed", "cancelled"}]_vars

\* C32: no thread acquires the lock of another component, or blocks waiting
\* for a runner thread, while it holds the scheduler lock.  (No method of
\* the scheduler calls the Task Store, whose lock therefore is never
\* requested.)
C32_NoForeignLockUnderSchedulerLock ==
    [][\A t \in Threads :
          /\ (lockOwner'.ctl = t /\ lockOwner.ctl # t) => lockOwner.sched # t
          /\ thread'[t].pc = "wait" => lockOwner'.sched # t]_vars

\* the thread takes a step of get_overall_progress
ReadsProgress(t) ==
    /\ thread[t].pc \in {"gop_begin", "gop_next", "gop_end"}
    /\ thread'[t] # thread[t]

\* the step changes the status or the progress of a job, or the job map
MutatesJobs ==
    \/ jobs' # jobs
    \/ \E o \in Objs : job'[o].status # job[o].status \/ progress'[o] # progress[o]

\* C33: every read of the overall progress and every write of the status or
\* progress of a job happens while the acting thread holds the scheduler
\* lock, and no job mutation or change of the job map falls between the
\* steps of a progress read.
C33_ProgressUnderLock ==
    [][/\ \A t \in Threads : ReadsProgress(t) => lockOwner.sched = t
       /\ (\E o \in Objs : job'[o].status # job[o].status
                              \/ progress'[o] # progress[o])
            => \E t \in Threads : lockOwner.sched = t /\ thread'[t] # thread[t]
       /\ \A t \in Threads :
             (thread[t].pc = "gop_next" /\ thread'[t] = thread[t])
                 => ~MutatesJobs]_vars


RetryPolicyTable(reason, n) ==
    CASE reason \in {"file_not_found", "permission_denied", "corruption"} -> FALSE
      [] reason = "disk_full" -> n = 0
      [] OTHER -> n \in {0, 1, 2}

\* C10: should_retry is false for FileNotFound, PermissionDenied and
\* Corruption, true for DiskFull only at retry_count 0, and true for every
\* other reason exactly when retry_count < 3.
C10_ShouldRetryTable ==
    query.asked =>
        /\ query.result = RetryPolicyTable(query.reason, query.retry_count)
        /\ (query.reason = "disk_full" /\ query.retry_count = 1) => ~query.result
        /\ (query.reason = "unknown" /\ query.retry_count = 2) => query.result
        /\ (query.reason = "unknown" /\ query.retry_count = 3) => ~query.result

C10_UnknownTwiceWitness ==
    /\ query.asked
    /\ query.reason = "unknown"
    /\ query.retry_count = 2
    /\ query.result

\* C11: when execute_task sees an error for which the classifier forbids a
\* retry, it leaves the task failed with the classified reason and the
\* message, with retry_count = max_retries, schedules no retry, and the task
\* is not among the resumable tasks.
C11_ForbiddenRetryExhausts ==
    [][\A e \in RaisedErrors :
          (/\ execute_task_raise(e)
           /\ ~should_retry(classify_error(e), tasks[executing].retry_count))
          => LET t == tasks'[executing]
             IN /\ t.status = "failed"
                /\ t.failure_reason = classify_error(e)
                /\ t.error_message = e
                /\ t.retry_count = t.max_retries
                /\ timers'[executing] = timers[executing]
                /\ ~Resumable(t)]_vars

C11_ForcedExhaustionWitness ==
    /\ lastOp = "raise"
    /\ \E id \in TaskIds :
          /\ tasks[id].status = "failed"
          /\ tasks[id].failure_reason = "file_not_found"
          /\ tasks[id].error_message = ErrorText.no_such_file
          /\ tasks[id].max_retries > 1
          /\ tasks[id].retry_count = tasks[id].max_retries
          /\ timers[id] = 0

\* C12 as stated: after the run, task 2 has failure_reason FileNotFound and
\* retry_count = 1, and tasks 1 and 3 are completed.
C12_MissingFileCountsOne ==
    RunDone =>
        /\ tasks[2].failure_reason = "file_not_found"
        /\ tasks[2].retry_count = 1
        /\ tasks[1].status = "completed"
        /\ tasks[3].status = "completed"

\* C12 amended: after the run, task 2 is failed with failure_reason
\* FileNotFound and retry_count = max_retries, and every other task is
\* completed.
C12_MissingFileExhausts ==
    RunDone =>
        /\ tasks[2].status = "failed"
        /\ tasks[2].failure_reason = "file_not_found"
        /\ tasks[2].retry_count = tasks[2].max_retries
        /\ \A t \in RunTaskIds \ {2} : tasks[t].status = "completed"

C12_RunDoneWitness ==
    /\ RunDone
    /\ tasks[2].status = "failed"
    /\ tasks[2].max_retries = DefaultMaxRetries
    /\ tasks[2].retry_count = DefaultMaxRetries

\* C13: when a retry delay elapses, a task that is still failed becomes
\* pending with its error message cleared, and a task in any other status is
\* left as it is.
C13_RetryFlipsOnlyFailed ==
    [][\A id \in TaskIds :
          retry_task(id) =>
              IF tasks[id].status = "failed"
              THEN tasks'[id] = [tasks[id] EXCEPT !.status = "pending",
                                                  !.error_message = <<>>]
              ELSE tasks'[id] = tasks[id]]_vars

\* a retry delay has just elapsed and no task is pending: the task of that
\* timer was running or completed
C13_TimerFoundTaskBusyWitness ==
    /\ lastOp = "retry"
    /\ \A id \in TaskIds : tasks[id].status \in {"running", "completed"}

\* C14: once a task is permanently exhausted (failed with retry_count =
\* max_retries), the status of the owning job is failed.
C14_ExhaustedTaskFailsJob ==
    (\E id \in TaskIds : /\ tasks[id].status = "failed"
                         /\ tasks[id].retry_count = tasks[id].max_retries)
        => current_job.status = "failed"

\* C15: every task whose status is failed has a failure_reason that is a
\* member of FailureReason.
C15_FailedHasReason ==
    \A id \in TaskIds :
        tasks[id].status = "failed" => tasks[id].failure_reason \in FailureReasons

C15_LoadedFailedTaskWitness ==
    /\ lastOp = "load"
    /\ \E id \in TaskIds : /\ tasks[id].status = "failed"
                            /\ tasks[id].failure_reason = "disk_full"

\* C16: after every status change the job file holds the statuses, retry
\* counts and failure reasons of the tasks in memory.
C16_FileFollowsMemory ==
    /\ jobFile.exists
    /\ \A id \in TaskIds :
          /\ jobFile.tasks[id].status = save_status(tasks[id].status)
          /\ jobFile.tasks[id].retry_count = tasks[id].retry_count
          /\ jobFile.tasks[id].failure_reason =
                 save_failure_reason(tasks[id].failure_reason)

C29_RetryDelayFromTable ==
    [][\A id \in TaskIds :
          timers'[id] > timers[id] =>
              LET retry_count == tasks'[id].retry_count
              IN /\ retry_count >= 1
                 /\ retry_delay(retry_count)
                        = retry_delays[Min(retry_count - 1, 4) + 1]
                 /\ tasks[id].retry_count = 0 => retry_delay(retry_count) = 1]_vars

\* a task that get_resumable_tasks skips for good
Exhausted(t) == t.status = "failed" /\ t.retry_count >= t.max_retries

\* C37: a permanently exhausted task (Failed with retry_count >= max_retries)
\* never returns to Pending and is never again returned by
\* get_resumable_tasks, whatever retry timers were scheduled earlier.
C37_ExhaustedStaysExhausted ==
    [][\A id \in TaskIds :
          Exhausted(tasks[id]) =>
              /\ tasks'[id].status # "pending"
              /\ ~Resumable(tasks'[id])]_vars

\* C38: retrying terminates: when every execution of a task fails, by an
\* exception or by a false result, the task eventually is permanently
\* exhausted and stays so.
C38_RetryingTerminates ==
    \A id \in TaskIds : <>[]Exhausted(tasks[id])

(***************************************************************************)
(* Properties of the Process Supervisor.                                   *)
(***************************************************************************)
\* the step in which cancel_all returns
CancelAllReturns ==
    /\ cancel_return \/ \E timeout \in 0..MaxPolls : cancel_begin(timeout)
    /\ cancelCall'.pc = "returned"

\* C18: cancel_all returns true exactly when the registry is empty at its
\* return, and it returns true when every process that was registered at the
\* call has exited by then.
C18_TrueIffRegistryEmpty ==
    [][CancelAllReturns =>
          /\ cancelCall'.result = "true" <=> active_processes' = <<>>
          /\ (\A p \in cancelCall'.tracked : proc'[p].state = "exited")
                => cancelCall'.result = "true"]_vars

\* C19: every tracked live process first receives terminate; kill is sent
\* only to a process that is alive after the graceful timeout and has
\* received terminate; and no process that is alive when cancel_all returns
\* has been dropped from the registry.
C19_TwoPhaseShutdown ==
    [][/\ (\E timeout \in 0..MaxPolls : cancel_begin(timeout))
            => \A p \in Tracked(active_processes) : IsAlive(p) => proc'[p].term
       /\ \A p \in Procs :
             (proc'[p].kill /\ ~proc[p].kill)
                => /\ proc[p].term
                   /\ IsAlive(p)
                   /\ cancelCall.pc = "wait"
                   /\ cancelCall.polls = 0
       /\ CancelAllReturns
            => \A p \in cancelCall'.tracked :
                  proc'[p].state = "alive" => p \in Tracked(active_processes')]_vars

\* C20: when cancel_all returns with cleanup-on-cancel enabled, every temp
\* file that was registered is deleted and both file registries are empty;
\* with cleanup-on-cancel disabled it deletes no file and leaves both
\* registries as they were.
C20_CleanupOnCancel ==
    [][CancelAllReturns =>
          IF cancelCall'.cleanup
          THEN /\ \A f \in cancelCall'.temps : disk'[f] = "absent"
               /\ temp_files' = {}
               /\ output_files' = {}
          ELSE /\ cancelCall'.deleted = {}
               /\ disk' = disk
               /\ temp_files' = cancelCall'.temps
               /\ output_files' = cancelCall'.outs]_vars

\* C31: a registration is removed as a whole: after remove_process(p) neither
\* p nor the temp file and output path that add_process registered together
\* with p are in the registries of the Process Supervisor.
C31_RegistrationRemovedWhole ==
    [][\A p \in Procs :
          remove_process(p) =>
              /\ p \notin Tracked(active_processes')
              /\ <<p, "temp">> \notin temp_files'
              /\ <<p, "out">> \notin output_files']_vars

\* C39: cancel_all deletes only output files of processes that were tracked
\* when it was called: the output file of a process that had exited and was
\* unregistered with remove_process before the call is neither deleted nor
\* changed by the call.
C39_UnregisteredOutputKept ==
    [][CancelAllReturns =>
          \A p \in Procs :
              (p \in cancelCall'.exited /\ p \notin cancelCall'.tracked)
                  => /\ <<p, "out">> \notin cancelCall'.deleted
                     /\ disk'[<<p, "out">>] = disk[<<p, "out">>]]_vars

(***************************************************************************)
(* Properties of the Resource Reclaimer.                                   *)
(***************************************************************************)
\* the running cleanup_all(force=True) call found the temp files f1 and f2
\* and no other file; the lock on f1 goes after the first failed attempt,
\* the lock on f2 stays
ForcedCleanupOfTwo(f1, f2) ==
    /\ rmCall.force
    /\ rmCall.moviepy = <<>>
    /\ f1 # f2
    /\ Range(rmCall.temps) = {f1, f2}
    /\ rmCall.fates[f1] = "locked1"
    /\ rmCall.fates[f2] = "locked"

\* the call is about to return: f1 is deleted, one delayed cleanup of f2 is
\* asleep, and at most max_retries attempts were made on each file
ForcedCleanupDone(f1, f2) ==
    /\ rmCall.pc = "done"
    /\ ForcedCleanupOfTwo(f1, f2)
    /\ rmEnv.disk[f1] = "absent"
    /\ rmEnv.disk[f2] = "locked"
    /\ Len(rmEnv.delayed[f2]) = 1
    /\ rmEnv.delayed[f2][1] > 0
    /\ rmEnv.delayed[f1] = <<>>
    /\ rmCall.tried[f1] <= MaxRetries.temp
    /\ rmCall.tried[f2] <= MaxRetries.temp

\* C21: cleanup_all(force=True) on two temp files, one whose lock is released
\* after one retry and one that stays locked, comes to its return, and there
\* the first file is deleted, a delayed cleanup of the locked file is pending
\* and the deletion attempts made are bounded by max_retries per file.
C21_ForcedCleanupEnds ==
    \A f1, f2 \in RmFiles :
        (rmCall.pc \in {"moviepy", "temp"} /\ ForcedCleanupOfTwo(f1, f2))
            ~> ForcedCleanupDone(f1, f2)

C21_TwoLockedFilesWitness ==
    \E f1, f2 \in RmFiles :
        /\ ForcedCleanupDone(f1, f2)
        /\ rmCall.tried[f1] = 2
        /\ rmCall.tried[f2] = MaxRetries.temp

\* C22: no exception leaves cleanup_all, and when it returns every clip,
\* reader, process and file that was registered has been handled and every
\* list is empty, whatever close, kill, wait or unlink raised on the way.
C22_CleanupSwallowsFailures ==
    /\ rmCall.pc # "raised"
    /\ rmCall.pc = "done" =>
          /\ \A f \in Range(rmCall.temps) : <<f, "temp">> \in rmCall.handled
          /\ \A f \in Range(rmCall.moviepy) : <<f, "moviepy">> \in rmCall.handled
          /\ reclaimer = [active_clips |-> <<>>, temp_files |-> <<>>,
                          processes |-> <<>>, audio_readers |-> <<>>,
                          moviepy_temp_files |-> <<>>]

\* the deletion of the first temp file and the kill of a process failed, and
\* the second temp file was deleted all the same
C22_FailureThenCleanupWitness ==
    /\ rmCall.pc = "done"
    /\ Len(rmCall.temps) = 2
    /\ <<rmCall.temps[1], "temp">> \in rmCall.errors
    /\ rmCall.fates[rmCall.temps[2]] = "free"
    /\ rmEnv.disk[rmCall.temps[2]] = "absent"
    /\ \E p \in RmProcs : <<p, "process">> \in rmCall.errors

\* C30: an unlink that fails on a lock is one of at most max_retries attempts;
\* unless it is the last, the loop sleeps min(2^attempt, 10) seconds and tries
\* again, for every file class; after the last it schedules exactly one
\* delayed cleanup; an unlink that fails otherwise is not retried.
C30_LockedFileBackoff ==
    LET l == rmCall.last
    IN /\ l.result = "lock" =>
            /\ l.attempt < MaxRetries[l.class]
            /\ IF l.attempt < MaxRetries[l.class] - 1
               THEN /\ l.retry
                    /\ l.wait = 2 * Min(2 ^ l.attempt, 10)
                    /\ l.scheduled = 0
               ELSE /\ ~l.retry
                    /\ l.scheduled = 1
       /\ l.result \in {"denied", "missing"} => ~l.retry /\ l.scheduled = 0

(***************************************************************************)
(* Properties of the Diversity Selector.                                   *)
(***************************************************************************)
\* the step in which get_next_combination[_from_allowed] returns
SelectorReturns == selCall.pc = "trying" /\ selCall'.pc = "returned"

\* C23: a tuple returned before the 30 attempts of its call are used up was
\* not in used_sequences and had no adjacent pair in used_pairs when it was
\* produced, so it differs from every tuple the selector returned before and
\* shares no ordered adjacent pair with any of them.
C23_ReturnedTupleIsNew ==
    [][(SelectorReturns /\ ~selCall'.exhausted) =>
          LET s == selCall'.result
          IN /\ s \notin selector.used_sequences
             /\ extract_consecutive_pairs(s) \cap selector.used_pairs = {}
             /\ \A r \in selHist.returned :
                   /\ r # s
                   /\ extract_consecutive_pairs(r)
                          \cap extract_consecutive_pairs(s) = {}]_vars

C23_SecondTupleWitness ==
    /\ selCall.pc = "returned"
    /\ ~selCall.exhausted
    /\ selector.per_video = 3
    /\ Cardinality(selHist.returned) = 2

\* C25: every returned tuple, from the loop or from the fallback behind it,
\* has length per_video, holds materials only and holds none of them twice.
C25_TupleOfDistinctMaterials ==
    selCall.pc = "returned" =>
        LET s == selCall.result
        IN /\ Len(s) = selector.per_video
           /\ Range(s) \subseteq Range(selector.materials)
           /\ \A i, j \in 1..Len(s) : i # j => s[i] # s[j]

C25_FallbackTupleWitness ==
    /\ selCall.pc = "returned"
    /\ selCall.exhausted
    /\ selCall.kind = "allowed"

\* C26: get_next_combination_from_allowed returns materials of the allowed
\* subset only and records the tuple in used_sequences, used_pairs and
\* material_count; for an allowed subset that is empty or smaller than
\* per_video it raises and leaves the selector and its file as they were.
C26_AllowedSubsetOnly ==
    [][/\ \A allowed \in SUBSET (Materials \cup Strangers) :
             (/\ get_next_combination_from_allowed(allowed)
              /\ Cardinality(allowed) < selector.per_video)
                => /\ selCall'.pc = "raised"
                   /\ UNCHANGED <<selector, selFile>>
       /\ (SelectorReturns /\ selCall.kind = "allowed") =>
             LET s == selCall'.result
             IN /\ Range(s) \subseteq selCall.allowed
                /\ selector'.used_sequences = selector.used_sequences \cup {s}
                /\ selector'.used_pairs =
                       selector.used_pairs \cup extract_consecutive_pairs(s)
                /\ \A m \in Range(selector.materials) :
                       selector'.material_count[m] =
                           selector.material_count[m]
                               + (IF m \in Range(s) THEN 1 ELSE 0)]_vars

C26_ProperSubsetWitness ==
    /\ selCall.pc = "returned"
    /\ selCall.kind = "allowed"
    /\ selCall.allowed # Range(selector.materials)
    /\ "X" \in selCall.allowed

\* C27: a selector constructed on the persistence file starts with the
\* used_sequences, used_pairs and material_count that were saved last if the
\* saved materials set and per_video equal its own, and with empty state
\* otherwise.
C27_StartsFromSavedState ==
    [][\A ms \in MaterialLists, k \in 2..Cardinality(Materials) :
          construct(ms, k, TRUE) =>
             LET stored == selHist.saved
             IN IF Range(stored.materials) = Range(ms) /\ stored.per_video = k
                THEN /\ selector'.used_sequences = stored.used_sequences
                     /\ selector'.used_pairs = stored.used_pairs
                     /\ selector'.material_count = stored.material_count
                ELSE /\ selector'.used_sequences = {}
                     /\ selector'.used_pairs = {}
                     /\ \A m \in Range(ms) : selector'.material_count[m] = 0]_vars

\* a second selector took over what the first saved for the same folder
\* listed in another order
C27_ReloadedWitness ==
    /\ selHist.selectors = 2
    /\ selHist.returned = {}
    /\ selector.persistence_file
    /\ selector.used_sequences # {}
    /\ selector.materials # selHist.saved.materials

\* C24: after ScenarioCalls (10) calls of get_next_combination on the selector
\* with materials [A, B, C, D, E] and per_video = 3, used_sequences has 10
\* entries, whatever the random draws were.
C24_TenCallsTenEntries ==
    (selHist.calls = ScenarioCalls /\ selector.materials = ScenarioMaterials)
        => Cardinality(selector.used_sequences) = ScenarioCalls

(***************************************************************************)
(* Properties of the output file naming.                                   *)
(***************************************************************************)
\* C28: the path generate_unique_filename returns names no existing file,
\* and two runners that hold a returned path for the same folder and base
\* name at the same time never hold the same path.
C28_NoSharedOutputPath ==
    /\ \A w \in Namers : namer[w].pc = "got" => ~namer[w].existed
    /\ \A v, w \in Namers :
          (v # w /\ namer[v].pc = "got" /\ namer[w].pc = "got")
              => namer[v].path # namer[w].path

(***************************************************************************)
(* Properties of the pipeline state machine.                               *)
(***************************************************************************)
\* entry i of the history is MERGING and an earlier entry since the last
\* IDLE is SPLIT_COMPLETED
SplitCompletedBefore(history, i) ==
    \E j \in 1..(i - 1) :
        /\ history[j] = "split_completed"
        /\ \A k \in j..i : history[k] # "idle"

\* C40: the pipeline is strictly two-phase: MERGING is entered only if
\* SPLIT_COMPLETED has been entered since the last IDLE, also after a
\* pause/resume or a retry from FAILED; and a rejected transition returns
\* false and leaves the current state and the history unchanged.
C40_StrictlyTwoPhase ==
    [][/\ \A i \in 1..Len(state_history') :
             state_history'[i] = "merging"
                 => SplitCompletedBefore(state_history', i)
       /\ (\E target_state \in PipelineState :
               transition_to(target_state) /\ ~can_transition_to(target_state))
            => /\ transition'.result = FALSE
               /\ current_state' = current_state
               /\ state_history' = state_history]_vars

====
